---- MODULE Spec2Model ----
(***************************************************************************)
(* Model of the streaming speech pipeline of meeting-mind:                 *)
(*   - ASREngine._process_stream and the helpers it calls                   *)
(*     (app/services/asr_engine.py): per-session buffer bookkeeping, the   *)
(*     VAD segmentation loop, the backlog / max-duration guards, the       *)
(*     partial-result throttle, the final flush, the segment finalizer and *)
(*     the speaker registry;                                               *)
(*   - ASREngine's queue and background worker (start_worker, stop_worker, *)
(*     enqueue_audio, _worker);                                            *)
(*   - SimpleGlobalLock (app/core/lock_manager.py).                        *)
(*                                                                         *)
(* Audio is opaque to the segmentation logic: a buffer is modelled by its  *)
(* length in bytes, and every byte is identified by its absolute position  *)
(* in the session's stream.  Chunk lengths and timestamps are whole       *)
(* milliseconds (multiples of BYTES_PER_MS bytes), so every ms value the   *)
(* code computes as a float is an integer here.                            *)
(***************************************************************************)
EXTENDS Integers, Sequences, FiniteSets, TLC

\* ------------------------------------------------------------------------
\* Program constants (asr_engine.py, class ASREngine)
\* ------------------------------------------------------------------------
SAMPLE_RATE == 16000
BYTES_PER_SAMPLE == 2
BYTES_PER_MS == (SAMPLE_RATE * BYTES_PER_SAMPLE) \div 1000
MAX_SEGMENT_DURATION_MS == 8000
\* SAMPLE_RATE * MIN_SEGMENT_LEN_SEC (0.3) * BYTES_PER_SAMPLE
MIN_SEGMENT_BYTES == (SAMPLE_RATE * 3 * BYTES_PER_SAMPLE) \div 10
\* SAMPLE_RATE * MIN_SPEAKER_AUDIO_LEN_SEC (0.5) * BYTES_PER_SAMPLE
MIN_SPEAKER_BYTES == (SAMPLE_RATE * 5 * BYTES_PER_SAMPLE) \div 10
\* the literal tolerance of the VAD close, in bytes (100 ms)
TOLERANCE_BYTES == 3200
\* SAMPLE_RATE * BYTES_PER_SAMPLE * 5: backlog threshold of the Idle guard
BACKLOG_BYTES == SAMPLE_RATE * BYTES_PER_SAMPLE * 5
\* partial throttle: "now - last_partial_time > 0.5" and "duration_ms > 500"
PARTIAL_INTERVAL_MS == 500
PARTIAL_MIN_DURATION_MS == 500
\* SPEAKER_SIMILARITY_THRESHOLD (0.35) and the continuity margin (0.1);
\* similarity scores are modelled in hundredths
SPEAKER_SIMILARITY_THRESHOLD == 35
CONTINUITY_MARGIN == 10
\* best_score = -1.0 before the registry is scanned
INITIAL_BEST_SCORE == -100

\* ------------------------------------------------------------------------
\* Bounds of the model
\* ------------------------------------------------------------------------
\* chunks processed in one behaviour of the stream specification
MaxChunks == 3
\* pairs reported by the VAD oracle in one behaviour (over all chunks)
MaxVadPairs == 2
\* chunks processed in one behaviour of the throttle specification
MaxThrottleChunks == 6
\* registered speakers
MaxSpeakers == 2
\* Number of chunks of a behaviour of the speaker specification.
MaxSpeakerChunks == 3
\* Number of calls on the resource gate in a behaviour.
MaxLockOps == 4
\* Number of items enqueued in a behaviour of the worker specification.
MaxEnqueues == 3
\* Number of VAD pairs reported in a behaviour of the worker specification.
MaxWorkerVadPairs == 1
\* Number of speech segments of a re-transcribed file.
MaxFileSegments == 2
\* Number of HTTP requests of a behaviour of the session specification.
MaxRequests == 3
\* Number of queue items of a behaviour of the session specification.
MaxSessionEnqueues == 2
\* Number of queue items of a behaviour of the stop specification.
MaxStopEnqueues == 3
MaxPartialEnqueues == 3
MaxRobustEnqueues == 3
MaxOddChunks == 4
MaxOddVadPairs == 2
\* Number of chunks and of VAD pairs of the backlog specification.
MaxBacklogChunks == 5
MaxBacklogVadPairs == 4

Max(a, b) == IF a >= b THEN a ELSE b
Min(a, b) == IF a <= b THEN a ELSE b

\* ------------------------------------------------------------------------
\* Speaker labels.  A registry key is "Speaker_<n>"; the label returned by
\* recognize_speaker is the formatted string "<key> (<gender>)"; None and
\* the unknown label are distinct from both.
\* ------------------------------------------------------------------------
None == <<>>
Unknown == <<"unknown">>
PartialSpeaker == <<"Partial">>
SpeakerKey(n) == <<"Speaker_", n>>
FormatLabel(key, gender) == <<key[1], key[2], gender>>
Genders == {"M", "F", "U"}

RegistryKeys(reg) == {SpeakerKey(n) : n \in 1..Len(reg)}
InRegistry(x, reg) == x \in RegistryKeys(reg)
Truthy(x) == x # None

\* ------------------------------------------------------------------------
\* The model objects of the engine.  __new__ (lines 37-50) sets asr_model,
\* vad_model and punc_model to None and does not create the attribute
\* speaker_model; load_models (lines 64-109) assigns the four in the order
\* ASR, VAD, punctuation, speaker.
\* ------------------------------------------------------------------------
VARIABLES
    asr_model,         \* "None" | "loaded"
    speaker_model      \* "absent" (no such attribute) | "loaded"

modelVars == <<asr_model, speaker_model>>

ModelInit ==
    /\ asr_model = "None"
    /\ speaker_model = "absent"

\* What a call of load_models does
LoadOutcomes == {"ok", "speaker_fails"}

\* load_models(): returns at once if asr_model is set (lines 66-68);
\* otherwise loads the models one after the other.  With outcome
\* "speaker_fails" the constructor of the speaker model raises: the three
\* models assigned before it stay, and load_models raises (lines 107-109).
LoadModels(outcome) ==
    /\ asr_model = "None"
    /\ asr_model' = "loaded"
    /\ speaker_model' = IF outcome = "ok" THEN "loaded" ELSE speaker_model

\* Scan of the registry in insertion order with the strict comparison
\* "score > best_score": state after the first n entries.
RECURSIVE BestScan(_, _)
BestScan(scores, n) ==
    IF n = 0 THEN [best_score |-> INITIAL_BEST_SCORE, best_speaker |-> None]
    ELSE LET p == BestScan(scores, n - 1)
         IN  IF scores[n] > p.best_score
             THEN [best_score |-> scores[n], best_speaker |-> SpeakerKey(n)]
             ELSE p

\* The continuity override of recognize_speaker (lines 269-282).
ContinuityOverride(best, previous_speaker, reg, scores) ==
    IF Truthy(previous_speaker) /\ best.best_speaker # previous_speaker
    THEN LET prev_score == IF InRegistry(previous_speaker, reg)
                           THEN scores[previous_speaker[2]]
                           ELSE 0
         IN  IF prev_score > SPEAKER_SIMILARITY_THRESHOLD
                /\ (best.best_score - prev_score) < CONTINUITY_MARGIN
             THEN [best_score |-> prev_score, best_speaker |-> previous_speaker]
             ELSE best
    ELSE best

\* np.frombuffer(audio, dtype=np.int16) (lines 224, 432) accepts only a
\* whole number of samples and raises ValueError otherwise.
WholeSamples(seg_len) == seg_len % BYTES_PER_SAMPLE = 0

\* recognize_speaker(audio_segment, previous_speaker).  o is the outcome of
\* the oracles it calls: o.emb ("ok" | "none" | "raise") of the embedding
\* model, o.scores the cosine similarity of the new embedding to each
\* registered profile, o.gender the result of detect_gender.
\* Result: the label returned, the registry afterwards and whether the
\* call raised instead of returning.  "if not self.speaker_model" (line 208)
\* is evaluated first and outside the try block: without the attribute it
\* raises AttributeError.
RecognizeSpeaker(seg_len, previous_speaker, reg, o) ==
    IF speaker_model = "absent"
    THEN [label |-> None, registry |-> reg, raised |-> TRUE]
    ELSE IF seg_len < MIN_SPEAKER_BYTES
    THEN [label |-> IF Truthy(previous_speaker) /\ InRegistry(previous_speaker, reg)
                    THEN previous_speaker ELSE Unknown,
          registry |-> reg, raised |-> FALSE]
    ELSE IF o.emb # "ok" \/ ~WholeSamples(seg_len)
    THEN [label |-> Unknown, registry |-> reg, raised |-> FALSE]
    ELSE LET scanned == BestScan(o.scores, Len(reg))
             best == ContinuityOverride(scanned, previous_speaker, reg, o.scores)
         IN  IF best.best_score > SPEAKER_SIMILARITY_THRESHOLD
             THEN LET n == best.best_speaker[2]
                  IN  [label |-> FormatLabel(best.best_speaker, reg[n].gender),
                       registry |-> [reg EXCEPT ![n].count = @ + 1],
                       raised |-> FALSE]
             ELSE LET new_id == SpeakerKey(Len(reg) + 1)
                  IN  [label |-> FormatLabel(new_id, o.gender),
                       registry |-> Append(reg, [gender |-> o.gender, count |-> 1]),
                       raised |-> FALSE]

\* The oracles of the finalizer.  o.fail is the set of calls that raise
\* among noise reduction ("nr"), the ASR model ("asr") and the punctuation
\* model ("punc"); o.text tells whether the text is non-empty when the ASR
\* call returns.  Lines 445-473: a raising ASR call leaves asr_text empty,
\* a raising noise reduction or punctuation call leaves its input as it is.
AsrText(o) == o.text /\ "asr" \notin o.fail

\* Variant without the minimum-length check of lines 421-426.
ProcessAudioSegment_NoMinimum(seg_len, previous_speaker, reg, o) ==
    LET spk == RecognizeSpeaker(seg_len, previous_speaker, reg, o)
    IN  [results |-> IF AsrText(o) /\ ~spk.raised /\ WholeSamples(seg_len)
                     THEN <<[speaker_id |-> spk.label]>> ELSE <<>>,
         registry |-> spk.registry,
         asr_run |-> TRUE,
         speaker_id |-> spk.label,
         raised |-> spk.raised \/ ~WholeSamples(seg_len)]

\* Variant in which a raising oracle call is not caught.
ProcessAudioSegment_OracleRaises(seg_len, previous_speaker, reg, o) ==
    IF seg_len < MIN_SEGMENT_BYTES
    THEN [results |-> <<>>, registry |-> reg, asr_run |-> FALSE,
          speaker_id |-> None, raised |-> FALSE]
    ELSE LET spk == RecognizeSpeaker(seg_len, previous_speaker, reg, o)
         IN  [results |-> IF /\ AsrText(o) /\ ~spk.raised /\ o.fail = {}
                             /\ WholeSamples(seg_len)
                          THEN <<[speaker_id |-> spk.label]>> ELSE <<>>,
              registry |-> spk.registry,
              asr_run |-> ~spk.raised /\ WholeSamples(seg_len),
              speaker_id |-> spk.label,
              raised |-> spk.raised \/ o.fail # {} \/ ~WholeSamples(seg_len)]

\* _process_audio_segment(audio_bytes, session_id, previous_speaker).
\* Result: the result list (empty or one entry), the registry afterwards,
\* whether the segment passed the length check and the speaker was
\* resolved (so that the ASR oracle was run), the speaker label resolved,
\* and whether the call raised: recognize_speaker (line 429) and the
\* conversion of the segment to samples (lines 431-434) are outside any try
\* block.
ProcessAudioSegment(seg_len, previous_speaker, reg, o) ==
    IF seg_len < MIN_SEGMENT_BYTES
    THEN [results |-> <<>>, registry |-> reg, asr_run |-> FALSE,
          speaker_id |-> None, raised |-> FALSE]
    ELSE LET spk == RecognizeSpeaker(seg_len, previous_speaker, reg, o)
         IN  [results |-> IF AsrText(o) /\ ~spk.raised /\ WholeSamples(seg_len)
                          THEN <<[speaker_id |-> spk.label]>> ELSE <<>>,
              registry |-> spk.registry,
              asr_run |-> ~spk.raised /\ WholeSamples(seg_len),
              speaker_id |-> spk.label,
              raised |-> spk.raised \/ ~WholeSamples(seg_len)]

\* ------------------------------------------------------------------------
\* Python slicing of a buffer of length n: the index i of buf[:i] / buf[i:]
\* after normalisation (a negative index counts from the end).
\* ------------------------------------------------------------------------
SliceIndex(i, n) == IF i < 0 THEN Max(0, n + i) ELSE Min(i, n)
\* len(buf[a:b])
SliceLen(a, b, n) == Max(0, SliceIndex(b, n) - SliceIndex(a, n))

\* ------------------------------------------------------------------------
\* State
\* ------------------------------------------------------------------------
VARIABLES
    cache,             \* ASREngine.cache: session id -> session cache (a dict)
    speaker_registry,  \* ASREngine.speaker_registry: profile n is "Speaker_<n>"
    now,               \* time.time(), in ms
    pc,                \* position of the running _process_stream call
    cur,               \* its arguments: session_id, chunk_len, is_final
    results,           \* its result list so far
    calls,             \* history: the finalizer calls of the running/last call
    hist,              \* history per session: byte accounting of the stream
    partial_log,       \* history: clock values of the partial emissions
    nchunks,           \* number of chunks processed so far (bounded)
    nvad               \* number of VAD pairs reported so far (bounded)

streamVars ==
    <<cache, speaker_registry, now, pc, cur, results, calls, hist, partial_log,
      nchunks, nvad>>

Sessions == {"A", "B"}

\* The session cache created for a new session id (lines 583-592).
\* audio_buffer is the length of the bytearray; last_partial_time is absent
\* from the dict until the first throttle pass and read with default 0.
NewSessionCache ==
    [audio_buffer |-> 0,
     buffer_offset_bytes |-> 0,
     current_start_ms |-> -1,
     last_speaker |-> None,
     last_partial_time |-> 0]

\* History of one session's stream since its cache entry was created:
\* bytes appended, bytes removed from the buffer, bytes handed to the
\* finalizer in non-partial segments, the end of the last such segment,
\* bytes removed in front of such a segment without being handed over, the
\* end of the last segment, whether a segment began before the end of an
\* earlier one, and what the VAD oracle has reported: whether its last span
\* is still open, whether it ever reported an end, its latest timestamp and
\* whether its reports so far were those of a well-behaved detector; the
\* span <<start_ms, end_ms>> of the last close that was deferred, and
\* whether exactly that span was handed to the finalizer since.
NoPair == <<-1, -1>>

NewHist ==
    [appended |-> 0, removed |-> 0, handed |-> 0, skipped |-> 0, last_hi |-> 0,
     overlap |-> FALSE, vad_open |-> FALSE, vad_end_seen |-> FALSE,
     vad_last |-> 0, vad_sane |-> TRUE, deferred |-> NoPair,
     honoured |-> FALSE, raised_ranges |-> {}, dup |-> FALSE]

\* The running or last call of _process_stream: its arguments, the last
\* pair its VAD loop handled, whether its VAD call returned pairs or raised
\* (and was caught, lines 623-624), whether the call ended by raising to
\* its caller, and which oracle calls of its last block raised (history).
NoCall == [session_id |-> "", chunk_len |-> 0, is_final |-> FALSE,
           vad_pair |-> NoPair, vad_returned |-> FALSE, vad_raised |-> FALSE,
           raised |-> FALSE, fail |-> {}]

ClockStart == 4 * PARTIAL_INTERVAL_MS
\* Time between two calls of _process_stream, in ms
ClockSteps == {600}

StreamInit ==
    /\ cache = << >>
    /\ speaker_registry = << >>
    /\ now = ClockStart
    /\ pc = "idle"
    /\ cur = NoCall
    /\ results = << >>
    /\ calls = << >>
    /\ hist = [s \in Sessions |-> NewHist]
    /\ partial_log = << >>
    /\ nchunks = 0
    /\ nvad = 0

\* ------------------------------------------------------------------------
\* Oracle outcomes
\* ------------------------------------------------------------------------
Scores == {20, 40, 45}

\* text / ptext: whether the final / the partial ASR call yields a
\* non-empty text.
Oracles(reg) ==
    [text : BOOLEAN, ptext : BOOLEAN, emb : {"ok", "none", "raise"},
     scores : [1..Len(reg) -> Scores], gender : Genders,
     fail : SUBSET {"nr", "asr", "punc"}]

\* The oracle outcome as far as a finalizer call used it (history only).
NoOracle == [text |-> FALSE]
UsedOracle(r, o) == IF r.asr_run THEN [o EXCEPT !.ptext = FALSE] ELSE NoOracle

\* The range [lo, hi) of stream positions shares a byte with a segment
\* handed to the finalizer before: with one the finalizer returned from
\* (they end at or before last_hi) or with one it raised on.
Overlaps(h, lo, hi) ==
    /\ hi > lo
    /\ \/ lo < h.last_hi
       \/ \E r \in h.raised_ranges : lo < r[2] /\ r[1] < hi

\* History update for a segment on which the finalizer raised: nothing is
\* removed from the buffer.
RecordRaised(h, base, a, b) ==
    [h EXCEPT !.dup = @ \/ Overlaps(h, base + a, base + b),
              !.raised_ranges = IF b > a THEN @ \cup {<<base + a, base + b>>}
                                ELSE @]

\* History update for one non-partial segment handed to the finalizer:
\* base is the absolute position of buffer[0], [a, b) the slice taken and
\* n_removed the number of bytes deleted from the front of the buffer.
RecordSegment(h, base, a, b, n_removed) ==
    [h EXCEPT !.removed = @ + n_removed,
              !.handed = @ + (b - a),
              !.skipped = @ + a,
              !.last_hi = IF b > a THEN base + b ELSE @,
              !.overlap = @ \/ (b > a /\ base + a < h.last_hi),
              !.dup = @ \/ Overlaps(h, base + a, base + b),
              !.honoured = @ \/ (/\ h.deferred # NoPair
                                 /\ base + a = h.deferred[1] * BYTES_PER_MS
                                 /\ base + b = h.deferred[2] * BYTES_PER_MS)]

\* History record of one finalizer call: the absolute byte range [lo, hi)
\* of the segment, the range [rlo, rhi) removed from the buffer with it,
\* and the inputs and the outcome of _process_audio_segment.
FinalizerCall(kind, base, a, b, n_removed, prev, o, r) ==
    [kind |-> kind, seg_len |-> b - a, lo |-> base + a, hi |-> base + b,
     rlo |-> base, rhi |-> base + n_removed,
     previous_speaker |-> prev, oracle |-> UsedOracle(r, o),
     asr_run |-> r.asr_run, speaker_id |-> r.speaker_id,
     n_results |-> Len(r.results), raised |-> r.raised]

\* last_speaker after the results of one finalizer call (lines 687-693)
UpdateLastSpeaker(last_speaker, seg_results) ==
    IF Len(seg_results) > 0
       /\ Truthy(seg_results[1].speaker_id) /\ seg_results[1].speaker_id # Unknown
    THEN seg_results[1].speaker_id
    ELSE last_speaker

StampResults(seg_results, kind, timestamp_ms, vad_segment, is_partial) ==
    [i \in 1..Len(seg_results) |->
        [kind |-> kind, speaker_id |-> seg_results[i].speaker_id,
         timestamp_ms |-> timestamp_ms, vad_segment |-> vad_segment,
         is_partial |-> is_partial]]

\* ------------------------------------------------------------------------
\* _process_stream, block by block.  A running call is the record
\*   st = [c: the session cache, reg: the registry, res: the result list,
\*         cl: the finalizer calls made, h: the session's history,
\*         raised: whether the block raised]
\* The finalizer is called outside any try block: when it raises, the
\* call of _process_stream ends there, with what it had written to the
\* session cache before and without its results.
\* ------------------------------------------------------------------------

\* Variant without the clamp: a negative start is used as it is.
ClampStartByte_None(start_byte) == start_byte

\* lines 658-663: a start that is no longer in the buffer is clamped to 0
ClampStartByte(start_byte) == IF start_byte < 0 THEN 0 ELSE start_byte

\* Variant without the tolerance: an end beyond the buffer is kept as it is.
ClampEndByte_NoTolerance(end_byte, buffer_len) == end_byte

\* lines 668-673: an end slightly beyond the buffer is cut to the buffer end
ClampEndByte(end_byte, buffer_len) ==
    IF end_byte > buffer_len /\ end_byte - buffer_len < TOLERANCE_BYTES
    THEN buffer_len
    ELSE end_byte

\* Variant that advances the offset and forgets to delete the prefix.
ConsumePrefix_NoDelete(c, end_byte) ==
    [c EXCEPT !.buffer_offset_bytes = @ + end_byte]

\* lines 698-699: "del audio_buffer[:end_byte]" and
\* "buffer_offset_bytes += end_byte"
ConsumePrefix(c, end_byte) ==
    [c EXCEPT !.audio_buffer = @ - SliceIndex(end_byte, @),
              !.buffer_offset_bytes = @ + end_byte]

\* A report of a well-behaved detector: a start only while no span is open,
\* an end only for an open span, timestamps that do not go back, and none
\* beyond the audio delivered so far (an end may overshoot it by less than
\* the tolerance); a span is not empty.
SanePair(h, pair) ==
    LET s == pair[1]
        e == pair[2]
        start_ok == /\ ~h.vad_open
                    /\ s >= h.vad_last
                    /\ s * BYTES_PER_MS <= h.appended
        end_ok == /\ (h.vad_open \/ s # -1)
                  /\ e > (IF s # -1 THEN s ELSE h.vad_last)
                  /\ e * BYTES_PER_MS - h.appended < TOLERANCE_BYTES
    IN  /\ (s # -1 \/ e # -1)
        /\ (s = -1 \/ start_ok)
        /\ (e = -1 \/ end_ok)

\* What the VAD oracle has reported so far (history only).
NoteVadPair(h, pair) ==
    [h EXCEPT !.vad_open = IF pair[2] # -1 THEN FALSE
                           ELSE IF pair[1] # -1 THEN TRUE ELSE @,
              !.vad_end_seen = @ \/ pair[2] # -1,
              !.vad_last = IF pair[2] # -1 THEN pair[2]
                           ELSE IF pair[1] # -1 THEN pair[1] ELSE @,
              !.vad_sane = @ /\ SanePair(h, pair)]

\* lines 642-706: the close of the stored span at end_ms
VadClose(st, pair, o) ==
    LET c == st.c
        start_ms == pair[1]
        end_ms == pair[2]
        abs_start_byte == c.current_start_ms * BYTES_PER_MS
        abs_end_byte == end_ms * BYTES_PER_MS
        start_byte == ClampStartByte(abs_start_byte - c.buffer_offset_bytes)
        buffer_len == c.audio_buffer
        end_byte == ClampEndByte(abs_end_byte - c.buffer_offset_bytes, buffer_len)
    IN  IF end_byte <= buffer_len
        THEN LET \* audio_buffer[start_byte:end_byte] is the range [a, b)
                 b == SliceIndex(end_byte, buffer_len)
                 a == Min(SliceIndex(start_byte, buffer_len), b)
                 n_removed == buffer_len - ConsumePrefix(c, end_byte).audio_buffer
                 r == ProcessAudioSegment(SliceLen(start_byte, end_byte, buffer_len),
                                          c.last_speaker, st.reg, o)
                 c2 == [ConsumePrefix(c, end_byte) EXCEPT
                           !.last_speaker = UpdateLastSpeaker(@, r.results),
                           !.current_start_ms = -1]
             IN  IF r.raised
                 THEN [st EXCEPT
                          !.raised = TRUE,
                          !.h = RecordRaised(@, st.h.removed, a, b),
                          !.cl = Append(@, FinalizerCall("vad", st.h.removed,
                                            a, b, 0, c.last_speaker, o, r))]
                 ELSE
                 [c |-> c2,
                  reg |-> r.registry,
                  res |-> st.res \o StampResults(r.results, "vad", end_ms,
                                                 <<start_ms, end_ms>>, "absent"),
                  cl |-> Append(st.cl, FinalizerCall("vad", st.h.removed, a, b,
                                         n_removed, c.last_speaker, o, r)),
                  h |-> RecordSegment(st.h, st.h.removed, a, b, n_removed),
                  raised |-> FALSE]
        ELSE [st EXCEPT !.c.current_start_ms = -1,
                        !.h.deferred = <<c.current_start_ms, end_ms>>,
                        !.h.honoured = FALSE]

\* lines 634-706: one iteration of "for seg in vad_segments"
VadSegmentStep(st, pair, o) ==
    LET st1 == [st EXCEPT
                   !.c.current_start_ms = IF pair[1] # -1 THEN pair[1] ELSE @,
                   !.h = NoteVadPair(@, pair)]
    IN  IF pair[2] # -1 /\ st1.c.current_start_ms # -1
        THEN VadClose(st1, pair, o)
        ELSE st1

\* Variant of the backlog guard that never opens a span.
BacklogGuard_Never(c) == c

\* lines 712-729: the backlog guard
BacklogGuard(c) ==
    IF c.current_start_ms = -1 /\ c.audio_buffer > BACKLOG_BYTES
    THEN [c EXCEPT !.current_start_ms = c.buffer_offset_bytes \div BYTES_PER_MS]
    ELSE c

\* lines 741-747: bytes from the start of the open span to the buffer end
DurationBytes(c) ==
    (c.buffer_offset_bytes + c.audio_buffer) - c.current_start_ms * BYTES_PER_MS

\* Variant of the throttle that passes at exactly the interval.
ThrottlePasses_AtInterval(c, tnow) ==
    /\ tnow - c.last_partial_time >= PARTIAL_INTERVAL_MS
    /\ (c.buffer_offset_bytes + c.audio_buffer) - c.current_start_ms * BYTES_PER_MS
          > PARTIAL_MIN_DURATION_MS * BYTES_PER_MS

\* line 756: the throttle condition
ThrottlePasses(c, tnow) ==
    /\ tnow - c.last_partial_time > PARTIAL_INTERVAL_MS
    /\ DurationBytes(c) > PARTIAL_MIN_DURATION_MS * BYTES_PER_MS

\* lines 761-773: the open span is long enough for a partial ASR call
PartialAudioLongEnough(c) ==
    LET start_byte == ClampStartByte(c.current_start_ms * BYTES_PER_MS
                                     - c.buffer_offset_bytes)
    IN  c.audio_buffer - SliceIndex(start_byte, c.audio_buffer) > MIN_SEGMENT_BYTES

\* lines 762-766: partial_audio = audio_buffer[start_byte:], as the range
\* of absolute stream positions it holds; base is the position of buffer[0]
PartialRange(c, base) ==
    LET start_byte == ClampStartByte(c.current_start_ms * BYTES_PER_MS
                                     - c.buffer_offset_bytes)
    IN  [lo |-> base + SliceIndex(start_byte, c.audio_buffer),
         hi |-> base + c.audio_buffer]

\* Variant in which a partial text is attributed like a final one.
PartialStep_SetsSpeaker(st, tnow, ptext) ==
    IF ThrottlePasses(st.c, tnow)
    THEN [st EXCEPT
             !.c.last_partial_time = tnow,
             !.c.last_speaker = IF PartialAudioLongEnough(st.c) /\ ptext
                                THEN PartialSpeaker ELSE @,
             !.res = IF PartialAudioLongEnough(st.c) /\ ptext
                     THEN Append(@, [kind |-> "partial",
                                     speaker_id |-> PartialSpeaker,
                                     timestamp_ms |-> tnow,
                                     vad_segment |-> << >>,
                                     is_partial |-> "true",
                                     lo |-> PartialRange(st.c, st.h.removed).lo,
                                     hi |-> PartialRange(st.c, st.h.removed).hi])
                     ELSE @]
    ELSE st

\* lines 751-809: the partial result; ptext tells whether the non-final ASR
\* call returned a non-empty text (a failing call yields none).  The record
\* of a partial result also notes the bytes the text was computed from.
PartialStep(st, tnow, ptext) ==
    IF ThrottlePasses(st.c, tnow)
    THEN [st EXCEPT
             !.c.last_partial_time = tnow,
             !.res = IF PartialAudioLongEnough(st.c) /\ ptext
                     THEN Append(@, [kind |-> "partial",
                                     speaker_id |-> PartialSpeaker,
                                     timestamp_ms |-> tnow,
                                     vad_segment |-> << >>,
                                     is_partial |-> "true",
                                     lo |-> PartialRange(st.c, st.h.removed).lo,
                                     hi |-> PartialRange(st.c, st.h.removed).hi])
                     ELSE @]
    ELSE st

\* Variant that ends the forced segment at the maximum duration.
ForceEndMs_MaxDuration(c) == c.current_start_ms + MAX_SEGMENT_DURATION_MS

\* line 817: force_end_ms = current_start_ms + duration_ms
ForceEndMs(c) == c.current_start_ms + DurationBytes(c) \div BYTES_PER_MS

\* lines 811-851: the max-duration guard (forced split)
ForcedSplit(st, o) ==
    LET c == st.c
        force_end_ms == ForceEndMs(c)
        start_byte == ClampStartByte(c.current_start_ms * BYTES_PER_MS
                                     - c.buffer_offset_bytes)
        end_byte == c.audio_buffer
    IN  IF DurationBytes(c) > MAX_SEGMENT_DURATION_MS * BYTES_PER_MS
           /\ end_byte > start_byte
        THEN LET r == ProcessAudioSegment(end_byte - start_byte, c.last_speaker,
                                          st.reg, o)
                 c2 == [ConsumePrefix(c, end_byte) EXCEPT
                           !.last_speaker = UpdateLastSpeaker(@, r.results),
                           !.current_start_ms = force_end_ms]
             IN  IF r.raised
                 THEN [st EXCEPT
                          !.raised = TRUE,
                          !.h = RecordRaised(@, st.h.removed, start_byte,
                                             end_byte),
                          !.cl = Append(@, FinalizerCall("forced", st.h.removed,
                                            start_byte, end_byte, 0,
                                            c.last_speaker, o, r))]
                 ELSE
                 [c |-> c2,
                  reg |-> r.registry,
                  res |-> st.res \o StampResults(r.results, "forced", force_end_ms,
                               <<c.current_start_ms, force_end_ms>>, "false"),
                  cl |-> Append(st.cl, FinalizerCall("forced", st.h.removed,
                             start_byte, end_byte,
                             end_byte - c2.audio_buffer, c.last_speaker, o, r)),
                  h |-> RecordSegment(st.h, st.h.removed, start_byte, end_byte,
                                      end_byte - c2.audio_buffer),
                  raised |-> FALSE]
        ELSE st

\* lines 708-851: both guards and the partial throttle, after the VAD loop
GuardsStep(st, tnow, o) ==
    LET st1 == [st EXCEPT !.c = BacklogGuard(@)]
    IN  IF st1.c.current_start_ms # -1
        THEN ForcedSplit(PartialStep(st1, tnow, o.ptext /\ "asr" \notin o.fail),
                         o)
        ELSE st1

\* lines 853-866: the flush of the remaining buffer at is_final
FinalFlushStep(st, tnow, o) ==
    LET c == st.c
        r == ProcessAudioSegment(c.audio_buffer, c.last_speaker, st.reg, o)
    IN  IF r.raised
        THEN [st EXCEPT
                 !.raised = TRUE,
                 !.h = RecordRaised(@, st.h.removed, 0, c.audio_buffer),
                 !.cl = Append(@, FinalizerCall("final", st.h.removed, 0,
                                   c.audio_buffer, 0, c.last_speaker, o, r))]
        ELSE
        [c |-> c,
         reg |-> r.registry,
         res |-> st.res \o StampResults(r.results, "final", tnow, << >>, "false"),
         cl |-> Append(st.cl, FinalizerCall("final", st.h.removed, 0,
                        c.audio_buffer, c.audio_buffer, c.last_speaker, o, r)),
         h |-> RecordSegment(st.h, st.h.removed, 0, c.audio_buffer, c.audio_buffer),
         raised |-> FALSE]

\* ------------------------------------------------------------------------
\* Actions of _process_stream (one call runs AppendChunk, then VadSegment
\* once per pair the VAD oracle returned, then Guards, then FinalFlush)
\* ------------------------------------------------------------------------
\* The oracle calls that raised in a block (history): those of o if the
\* block ran the finalizer's oracles or attempted a partial ASR call.
FailedCalls(st, o, partial_attempted) ==
    IF \/ partial_attempted
       \/ Len(st.cl) > Len(calls) /\ st.cl[Len(st.cl)].asr_run
    THEN o.fail ELSE {}

\* lines 756-773 for the cache c as the guards find it: a partial ASR call
\* is made
PartialAttempted(c, tnow) ==
    LET c1 == BacklogGuard(c)
    IN  /\ c1.current_start_ms # -1
        /\ ThrottlePasses(c1, tnow)
        /\ PartialAudioLongEnough(c1)

Running(s) ==
    [c |-> cache[s], reg |-> speaker_registry, res |-> results,
     cl |-> calls, h |-> hist[s], raised |-> FALSE]

\* Variant that keeps one session cache for all sessions.
Store_SharedCache(s, st) ==
    /\ cache' = [t \in DOMAIN cache |-> st.c]
    /\ speaker_registry' = st.reg
    /\ results' = IF st.raised THEN << >> ELSE st.res
    /\ calls' = st.cl
    /\ hist' = [hist EXCEPT ![s] = st.h]

\* What a block leaves behind; a block that raised ends the call, and its
\* caller gets the exception instead of the result list.
Store(s, st) ==
    /\ cache' = [cache EXCEPT ![s] = st.c]
    /\ speaker_registry' = st.reg
    /\ results' = IF st.raised THEN << >> ELSE st.res
    /\ calls' = st.cl
    /\ hist' = [hist EXCEPT ![s] = st.h]

\* The arguments of a call that begins
NewCall(s, chunk_len, is_final) ==
    [NoCall EXCEPT !.session_id = s, !.chunk_len = chunk_len,
                   !.is_final = is_final]

\* lines 579-580: without the ASR model the call raises RuntimeError before
\* it touches the session cache.  limit bounds the number of calls.
ProcessStreamUnloaded(s, chunk_len, is_final, limit) ==
    /\ pc = "idle"
    /\ asr_model = "None"
    /\ nchunks < limit
    /\ nchunks' = nchunks + 1
    /\ cur' = [NewCall(s, chunk_len, is_final) EXCEPT !.raised = TRUE]
    /\ results' = << >>
    /\ calls' = << >>
    /\ UNCHANGED <<cache, speaker_registry, now, pc, hist, partial_log, nvad>>

\* lines 582-627: create the session cache if needed, append the chunk; the
\* clock has advanced by dt since the previous call.  limit bounds the
\* number of chunks of a behaviour.  The conversion of a non-empty chunk to
\* samples for the VAD (lines 600-604) follows the append and is outside
\* any try block: a chunk that is not a whole number of samples stays in
\* the buffer and the call raises.
AppendChunk(s, chunk_len, is_final, dt, limit) ==
    /\ pc = "idle"
    /\ asr_model # "None"
    /\ nchunks < limit
    /\ nchunks' = nchunks + 1
    /\ now' = now + dt
    /\ LET c == IF s \in DOMAIN cache THEN cache[s] ELSE NewSessionCache
           h == IF s \in DOMAIN cache THEN hist[s] ELSE NewHist
       IN  /\ cache' = [t \in DOMAIN cache \cup {s} |->
                           IF t = s THEN [c EXCEPT !.audio_buffer = @ + chunk_len]
                           ELSE cache[t]]
           /\ hist' = [hist EXCEPT ![s] = [h EXCEPT !.appended = @ + chunk_len]]
    /\ cur' = [NewCall(s, chunk_len, is_final) EXCEPT
                  !.raised = ~WholeSamples(chunk_len)]
    /\ results' = << >>
    /\ calls' = << >>
    /\ pc' = IF WholeSamples(chunk_len) THEN "vad" ELSE "idle"
    /\ partial_log' = IF s \in DOMAIN cache THEN partial_log ELSE << >>
    /\ UNCHANGED <<speaker_registry, nvad>>

\* lines 611-624: the call of the VAD model raises; the exception is
\* caught and logged, and vad_segments stays empty.
VadFails ==
    /\ pc = "vad"
    /\ cur.chunk_len > 0
    /\ ~cur.vad_returned /\ ~cur.vad_raised
    /\ cur' = [cur EXCEPT !.vad_raised = TRUE]
    /\ UNCHANGED <<cache, speaker_registry, now, pc, results, calls, hist,
                   partial_log, nchunks, nvad>>

\* lines 634-706: the next pair of vad_segments (the VAD runs only on a
\* non-empty chunk).  limit bounds the number of pairs of a behaviour.
VadSegment(pair, o, limit) ==
    /\ pc = "vad"
    /\ cur.chunk_len > 0
    /\ ~cur.vad_raised
    /\ nvad < limit
    /\ nvad' = nvad + 1
    /\ LET st == VadSegmentStep(Running(cur.session_id), pair, o)
       IN  /\ Len(st.reg) <= MaxSpeakers
           /\ Store(cur.session_id, st)
           /\ pc' = IF st.raised THEN "idle" ELSE pc
           /\ cur' = [cur EXCEPT !.vad_pair = pair, !.vad_returned = TRUE,
                                 !.raised = st.raised,
                                 !.fail = FailedCalls(st, o, FALSE)]
    /\ UNCHANGED <<now, partial_log, nchunks>>

\* lines 708-851: the guards and the partial throttle, once the loop is
\* over.  log tells whether the specification records the partial emissions.
Guards(o, log) ==
    /\ pc = "vad"
    /\ LET st == GuardsStep(Running(cur.session_id), now, o)
       IN  /\ Len(st.reg) <= MaxSpeakers
           /\ Store(cur.session_id, st)
           /\ partial_log' =
                 IF log /\ \E i \in 1..Len(st.res) :
                              i > Len(results) /\ st.res[i].kind = "partial"
                 THEN Append(partial_log, now)
                 ELSE partial_log
           /\ pc' = IF st.raised THEN "idle" ELSE "final"
           /\ cur' = [cur EXCEPT
                         !.raised = st.raised,
                         !.fail = FailedCalls(st, o,
                                     PartialAttempted(cache[cur.session_id], now))]
    /\ UNCHANGED <<now, nchunks, nvad>>

\* lines 853-871: the final flush, the removal of the session, the return
FinalFlush(o) ==
    /\ pc = "final"
    /\ LET s == cur.session_id
       IN  IF cur.is_final /\ cache[s].audio_buffer > 0
           THEN LET st == FinalFlushStep(Running(s), now, o)
                IN  /\ Len(st.reg) <= MaxSpeakers
                    /\ cache' = IF st.raised THEN cache
                                ELSE [t \in DOMAIN cache \ {s} |-> cache[t]]
                    /\ speaker_registry' = st.reg
                    /\ results' = IF st.raised THEN << >> ELSE st.res
                    /\ calls' = st.cl
                    /\ hist' = [hist EXCEPT ![s] = st.h]
                    /\ cur' = [cur EXCEPT !.raised = st.raised,
                                          !.fail = FailedCalls(st, o, FALSE)]
           ELSE /\ cur' = [cur EXCEPT !.fail = {}]
                /\ UNCHANGED <<cache, speaker_registry, results, calls, hist>>
    /\ pc' = "idle"
    /\ UNCHANGED <<now, partial_log, nchunks, nvad>>

\* ------------------------------------------------------------------------
\* SimpleGlobalLock (core/lock_manager.py): the resource gate
\* ------------------------------------------------------------------------
VARIABLES
    is_busy,           \* SimpleGlobalLock._is_busy
    current_owner,     \* SimpleGlobalLock.current_owner
    lock_log,          \* history: the calls made, with what try_acquire returned
    holders            \* history: owners that acquired the gate and have not
                       \* released it since

lockVars == <<is_busy, current_owner, lock_log, holders>>

\* Python's None as an owner id
NoOwner == "None"
Owners == {"s1", "s2", NoOwner}

LockInit ==
    /\ is_busy = FALSE
    /\ current_owner = NoOwner
    /\ lock_log = << >>
    /\ holders = {}

\* Variant of try_acquire that takes the gate whether it is held or not.
LockTryAcquire_Always(g, owner_id) ==
    [ret |-> TRUE, is_busy |-> TRUE, current_owner |-> owner_id]

\* try_acquire(owner_id) on the gate g = [is_busy, current_owner]: what it
\* returns and the gate afterwards
LockTryAcquire(g, owner_id) ==
    IF g.is_busy
    THEN [ret |-> FALSE, is_busy |-> g.is_busy, current_owner |-> g.current_owner]
    ELSE [ret |-> TRUE, is_busy |-> TRUE, current_owner |-> owner_id]

\* Variant of release that frees the gate and keeps the owner's name.
LockRelease_KeepsOwner(g, owner_id) ==
    IF ~g.is_busy \/ g.current_owner # owner_id
    THEN g
    ELSE [is_busy |-> FALSE, current_owner |-> g.current_owner]

\* release(owner_id): the gate afterwards
LockRelease(g, owner_id) ==
    IF ~g.is_busy THEN g
    ELSE IF g.current_owner # owner_id THEN g
    ELSE [is_busy |-> FALSE, current_owner |-> NoOwner]

Gate == [is_busy |-> is_busy, current_owner |-> current_owner]

TryAcquire(owner_id) ==
    /\ Len(lock_log) < MaxLockOps
    /\ LET r == LockTryAcquire(Gate, owner_id)
       IN  /\ is_busy' = r.is_busy
           /\ current_owner' = r.current_owner
           /\ lock_log' = Append(lock_log, [op |-> "try_acquire",
                                            owner_id |-> owner_id, ret |-> r.ret])
           /\ holders' = IF r.ret THEN holders \cup {owner_id} ELSE holders

Release(owner_id) ==
    /\ Len(lock_log) < MaxLockOps
    /\ LET g == LockRelease(Gate, owner_id)
       IN  /\ is_busy' = g.is_busy
           /\ current_owner' = g.current_owner
    /\ lock_log' = Append(lock_log, [op |-> "release", owner_id |-> owner_id,
                                     ret |-> FALSE])
    /\ holders' = holders \ {owner_id}

\* ------------------------------------------------------------------------
\* The queue and the worker (asr_engine.py lines 487-567), on one asyncio
\* event loop.  A step of a coroutine runs from one suspension point to the
\* next; coroutines woken by a step run after those already scheduled.
\* ------------------------------------------------------------------------
VARIABLES
    queue_made,        \* self.queue is not None
    queue,             \* the items of self.queue, oldest first
    unfinished,        \* Queue._unfinished_tasks
    worker_task,       \* self.worker_task: "none" | "alive" | "done"
    wpc,               \* where the worker coroutine is suspended
    cancel_requested,  \* worker_task.cancel() was called and not yet delivered
    callbacks,         \* the keys of self.callbacks
    stop_pc,           \* where stop_worker is suspended
    item,              \* the item the worker is handling
    enq,               \* history: items enqueued per session
    processed,         \* history: items in the order they were dequeued
    delivered          \* history: items in the order handed to a callback

workerVars == <<queue_made, queue, unfinished, worker_task, wpc,
                cancel_requested, callbacks, stop_pc, item, enq, processed,
                delivered>>

NoItem == [session_id |-> "", chunk_len |-> 0, is_final |-> FALSE, n |-> 0]

WorkerInit ==
    /\ queue_made = FALSE
    /\ queue = << >>
    /\ unfinished = 0
    /\ worker_task = "none"
    /\ wpc = "none"
    /\ cancel_requested = FALSE
    /\ callbacks = {}
    /\ stop_pc = "idle"
    /\ item = NoItem
    /\ enq = [s \in Sessions |-> 0]
    /\ processed = << >>
    /\ delivered = << >>

\* Variant of the queue that hands out the newest item.
QueueGet_Newest(q) ==
    [item |-> q[Len(q)], rest |-> SubSeq(q, 1, Len(q) - 1)]

\* asyncio.Queue.get_nowait on a non-empty queue
QueueGet(q) == [item |-> Head(q), rest |-> Tail(q)]

\* start_worker (lines 487-496) creates a task if none is referenced or the
\* referenced one is done.  The model follows one worker coroutine: a call
\* that would create a second one beside a live, no longer referenced
\* coroutine is not taken.
NeedsTask == worker_task = "none" \/ wpc = "done"
CanStart == NeedsTask => wpc \in {"none", "done"}
StartedPc == IF NeedsTask THEN "fresh" ELSE wpc

\* stream.py lines 199-201: a connection registers its callback and calls
\* start_worker
Connect(s) ==
    /\ CanStart
    /\ callbacks' = callbacks \cup {s}
    /\ queue_made' = TRUE
    /\ worker_task' = "task"
    /\ wpc' = StartedPc
    /\ cancel_requested' = (cancel_requested /\ ~NeedsTask)
    /\ UNCHANGED <<queue, unfinished, stop_pc, item, enq, processed, delivered>>

\* unregister_callback (lines 525-528)
UnregisterCallback(s) ==
    /\ s \in callbacks
    /\ callbacks' = callbacks \ {s}
    /\ UNCHANGED <<queue_made, queue, unfinished, worker_task, wpc,
                   cancel_requested, stop_pc, item, enq, processed, delivered>>

\* enqueue_audio (lines 512-519): start_worker if there is no queue, then
\* put, which does not suspend on an unbounded queue and wakes a waiting
\* getter.  limit bounds the number of items of a behaviour.
QueuePut(s, chunk_len, is_final, limit) ==
    /\ enq["A"] + enq["B"] < limit
    /\ LET p == IF queue_made THEN wpc ELSE "fresh"
       IN  wpc' = IF p = "get_wait" THEN "get_woken" ELSE p
    /\ worker_task' = IF queue_made THEN worker_task ELSE "task"
    /\ queue_made' = TRUE
    /\ queue' = Append(queue, [session_id |-> s, chunk_len |-> chunk_len,
                               is_final |-> is_final, n |-> enq[s] + 1])
    /\ unfinished' = unfinished + 1
    /\ enq' = [enq EXCEPT ![s] = @ + 1]
    /\ UNCHANGED <<cancel_requested, stop_pc, item, processed, delivered>>

EnqueueAudio(s, chunk_len, is_final, limit) ==
    QueuePut(s, chunk_len, is_final, limit) /\ UNCHANGED callbacks

\* The worker loop from "await self.queue.get()" (line 537): with an item
\* in the queue it takes it without suspending and hands it to the executor
\* (_process_stream starts, lines 541-546); with an empty queue it suspends
\* in get.  q and n are the queue and the unfinished count at that point.
WorkerLoop(q, n, limit) ==
    /\ unfinished' = n
    /\ IF q # << >>
       THEN LET g == QueueGet(q)
            IN  /\ queue' = g.rest
                /\ item' = g.item
                /\ processed' = Append(processed,
                                       <<g.item.session_id, g.item.n>>)
                /\ wpc' = "processing"
                /\ \/ \E dt \in ClockSteps :
                         AppendChunk(g.item.session_id, g.item.chunk_len,
                                     g.item.is_final, dt, limit)
                   \/ ProcessStreamUnloaded(g.item.session_id,
                               g.item.chunk_len, g.item.is_final, limit)
       ELSE /\ queue' = q
            /\ wpc' = "get_wait"
            /\ UNCHANGED <<item, processed, streamVars>>

\* The worker runs: its first step, or its resumption in get after a put.
\* A stop_worker woken by the join runs before a worker woken after it.
WorkerGet(limit) ==
    /\ wpc \in {"fresh", "get_woken"}
    /\ ~cancel_requested
    /\ stop_pc # "join_woken"
    /\ WorkerLoop(queue, unfinished, limit)
    /\ UNCHANGED <<queue_made, worker_task, cancel_requested, callbacks,
                   stop_pc, enq, delivered>>

\* stop_worker's join wakes when task_done brings the count to 0
\* (Queue.task_done sets the event join waits on).
AfterTaskDone(sp, n) == IF sp = "joining" /\ n = 0 THEN "join_woken" ELSE sp

\* Variant without the except and finally clauses of lines 556-561: an
\* exception of _process_stream ends the worker and the item is never
\* marked done.
WorkerResume_NoFinally(limit) ==
    /\ wpc = "processing"
    /\ pc = "idle"
    /\ ~cancel_requested
    /\ IF cur.raised
       THEN /\ wpc' = "done"
            /\ UNCHANGED <<queue, unfinished, stop_pc, item, processed,
                           delivered, streamVars>>
       ELSE IF item.session_id \in callbacks
       THEN /\ delivered' = Append(delivered, <<item.session_id, item.n>>)
            /\ wpc' = "callback"
            /\ UNCHANGED <<queue, unfinished, stop_pc, item, processed,
                           streamVars>>
       ELSE /\ WorkerLoop(queue, unfinished - 1, limit)
            /\ stop_pc' = AfterTaskDone(stop_pc, unfinished - 1)
            /\ UNCHANGED delivered
    /\ UNCHANGED <<queue_made, worker_task, cancel_requested, callbacks, enq>>

\* Lines 548-561: _process_stream has returned; the callback registered for
\* the session is awaited; without one the worker goes on to task_done
\* (lines 560-561) and to the next get.  When _process_stream raised, the
\* exception is logged (lines 556-559) and the callback is not called.
WorkerResume(limit) ==
    /\ wpc = "processing"
    /\ pc = "idle"
    /\ ~cancel_requested
    /\ IF item.session_id \in callbacks /\ ~cur.raised
       THEN /\ delivered' = Append(delivered, <<item.session_id, item.n>>)
            /\ wpc' = "callback"
            /\ UNCHANGED <<queue, unfinished, stop_pc, item, processed,
                           streamVars>>
       ELSE /\ WorkerLoop(queue, unfinished - 1, limit)
            /\ stop_pc' = AfterTaskDone(stop_pc, unfinished - 1)
            /\ UNCHANGED delivered
    /\ UNCHANGED <<queue_made, worker_task, cancel_requested, callbacks, enq>>

\* The callback has returned: task_done, and the next get.
WorkerCallbackDone(limit) ==
    /\ wpc = "callback"
    /\ ~cancel_requested
    /\ WorkerLoop(queue, unfinished - 1, limit)
    /\ stop_pc' = AfterTaskDone(stop_pc, unfinished - 1)
    /\ UNCHANGED <<queue_made, worker_task, cancel_requested, callbacks, enq,
                   delivered>>

\* The callback has raised an exception: it is logged (lines 556-559),
\* then task_done (lines 560-561) and the next get.
WorkerCallbackRaised(limit) == WorkerCallbackDone(limit)

\* The cancellation reaches the worker at its suspension point
\* (CancelledError): inside the inner try the finally clause still calls
\* task_done (lines 560-561); the loop ends (lines 563-564).  An item that
\* woke the worker in get stays in the queue.
WorkerCancelled ==
    /\ cancel_requested
    /\ wpc \in {"fresh", "get_wait", "get_woken", "processing", "callback"}
    /\ cancel_requested' = FALSE
    /\ wpc' = "done"
    /\ unfinished' = IF wpc \in {"processing", "callback"}
                     THEN unfinished - 1 ELSE unfinished
    /\ stop_pc' = IF stop_pc = "awaiting" THEN "resuming" ELSE stop_pc
    /\ UNCHANGED <<queue_made, queue, worker_task, callbacks, item, enq,
                   processed, delivered>>

\* Lines 503-510 of stop_worker: cancel the task and await it.  A task that
\* is done already is awaited without suspending.
StopCancelPart ==
    IF worker_task = "task"
    THEN IF wpc = "done"
         THEN /\ worker_task' = "none"
              /\ stop_pc' = "idle"
              /\ UNCHANGED cancel_requested
         ELSE /\ cancel_requested' = TRUE
              /\ stop_pc' = "awaiting"
              /\ UNCHANGED worker_task
    ELSE /\ stop_pc' = "idle"
         /\ UNCHANGED <<worker_task, cancel_requested>>

\* stop_worker is called (main.py line 30): with unfinished items it
\* suspends in queue.join() (lines 500-501), otherwise it goes on to cancel.
StopWorker ==
    /\ stop_pc = "idle"
    /\ IF queue_made /\ unfinished > 0
       THEN /\ stop_pc' = "joining"
            /\ UNCHANGED <<worker_task, cancel_requested>>
       ELSE StopCancelPart
    /\ UNCHANGED <<queue_made, queue, unfinished, wpc, callbacks, item, enq,
                   processed, delivered>>

\* stop_worker resumes from the join (Event.wait returns without looking
\* at the count again) and cancels the worker.
StopCancel ==
    /\ stop_pc = "join_woken"
    /\ StopCancelPart
    /\ UNCHANGED <<queue_made, queue, unfinished, wpc, callbacks, item, enq,
                   processed, delivered>>

\* stop_worker resumes from "await self.worker_task" (lines 505-509)
StopFinish ==
    /\ stop_pc = "resuming"
    /\ worker_task' = "none"
    /\ stop_pc' = "idle"
    /\ UNCHANGED <<queue_made, queue, unfinished, wpc, cancel_requested,
                   callbacks, item, enq, processed, delivered>>

\* ------------------------------------------------------------------------
\* The threads of the default executor.  The worker hands each call of
\* _process_stream to it (lines 542-546) and retranscribe_meeting hands
\* transcribe_file to it (session_mgr.py lines 383-392): the two calls run
\* on different threads of the pool at the same time.  Both call
\* recognize_speaker, which scans and updates self.speaker_registry without
\* a lock.  A thread is in in_registry from its call of recognize_speaker
\* to its return.  The stream thread's call is run as one step at its
\* return; the file thread's call is two steps, the reads (FileScan) and the
\* store with the return (FileSegment), and the stream thread may run
\* between them.
\* ------------------------------------------------------------------------
VARIABLES
    in_registry,       \* the threads executing recognize_speaker
    file_pc,           \* transcribe_file: "idle" | "segments" | "done"
    file_segments,     \* its VAD segments still to be processed
    file_results,      \* its result list
    file_write         \* the store its call of recognize_speaker decided on

fileVars == <<in_registry, file_pc, file_segments, file_results, file_write>>

\* No call of the file thread has read the registry
NoScan == [kind |-> "unscanned", key |-> 0, gender |-> "", count |-> 0,
           label |-> None]

FileInit ==
    /\ in_registry = {}
    /\ file_pc = "idle"
    /\ file_segments = 0
    /\ file_results = << >>
    /\ file_write = NoScan

\* Length in bytes of a segment of the file (0.6 s)
FileSegmentBytes == 600 * BYTES_PER_MS

\* transcribe_file up to the loop over the n segments its VAD call
\* returned (lines 873-914); the models are loaded.
FileStart(n) ==
    /\ file_pc = "idle"
    /\ asr_model = "loaded"
    /\ file_pc' = "segments"
    /\ file_segments' = n
    /\ file_results' = << >>
    /\ UNCHANGED <<in_registry, file_write>>

\* line 936: the call of recognize_speaker for the next segment
FileEnter ==
    /\ file_pc = "segments"
    /\ file_segments > 0
    /\ "file" \notin in_registry
    /\ in_registry' = in_registry \cup {"file"}
    /\ UNCHANGED <<file_pc, file_segments, file_results, file_write>>

\* What a call of recognize_speaker has decided to store once its reads are
\* done: nothing (a return without a store), count + 1 for the profile it
\* matched, with the count it read at line 287, or a new profile under the
\* id it built from len(self.speaker_registry) at line 304.
PendingWrite(reg, r, o) ==
    IF r.registry = reg
    THEN [kind |-> "none", key |-> 0, gender |-> "", count |-> 0,
          label |-> r.label]
    ELSE IF Len(r.registry) > Len(reg)
    THEN [kind |-> "new", key |-> Len(reg) + 1, gender |-> o.gender,
          count |-> 1, label |-> r.label]
    ELSE LET n == CHOOSE n \in 1..Len(reg) : r.registry[n] # reg[n]
         IN  [kind |-> "inc", key |-> n, gender |-> reg[n].gender,
              count |-> reg[n].count + 1, label |-> r.label]

\* The store of lines 295-296 or 305-309 on the registry as it is by then.
\* fresh: the other thread ran before the read of the count (line 287) or
\* of the length (line 304); otherwise it ran between that read and the
\* store, and the value stored is the one decided on.
StoreWrite(reg, w, fresh) ==
    IF w.kind = "inc"
    THEN [reg EXCEPT ![w.key].count = IF fresh THEN @ + 1 ELSE w.count]
    ELSE IF w.kind = "new"
    THEN IF fresh \/ w.key > Len(reg)
         THEN Append(reg, [gender |-> w.gender, count |-> 1])
         ELSE [reg EXCEPT ![w.key] = [gender |-> w.gender, count |-> 1]]
    ELSE reg

\* lines 205-304 on the file thread: the scan of the registry and the
\* choice between a match and a new profile
FileScan(o) ==
    /\ "file" \in in_registry
    /\ file_write = NoScan
    /\ LET r == RecognizeSpeaker(FileSegmentBytes, None, speaker_registry, o)
       IN  /\ Len(r.registry) <= MaxSpeakers
           /\ file_write' = PendingWrite(speaker_registry, r, o)
    /\ UNCHANGED <<in_registry, file_pc, file_segments, file_results>>
    /\ UNCHANGED <<cache, now, pc, cur, results, calls, hist, partial_log,
                   nchunks, nvad, speaker_registry>>

\* lines 295-299 or 305-313, then 936-961: the store, recognize_speaker
\* returns, the segment is transcribed; after the last segment
\* transcribe_file returns (line 963)
FileSegment(o) ==
    /\ "file" \in in_registry
    /\ file_write # NoScan
    /\ \E fresh \in BOOLEAN :
          LET reg == StoreWrite(speaker_registry, file_write, fresh)
              label == IF file_write.kind = "new" /\ Len(reg) > Len(speaker_registry)
                       THEN FormatLabel(SpeakerKey(Len(reg)), file_write.gender)
                       ELSE file_write.label
          IN  /\ Len(reg) <= MaxSpeakers
              /\ speaker_registry' = reg
              /\ file_results' = IF AsrText(o)
                                 THEN Append(file_results, [speaker |-> label])
                                 ELSE file_results
    /\ file_write' = NoScan
    /\ in_registry' = in_registry \ {"file"}
    /\ file_segments' = file_segments - 1
    /\ file_pc' = IF file_segments = 1 THEN "done" ELSE file_pc
    /\ UNCHANGED <<cache, now, pc, cur, results, calls, hist, partial_log,
                   nchunks, nvad>>

\* line 429, reached from the VAD close of a span of at least 0.3 s: the
\* executor thread of _process_stream calls recognize_speaker
StreamEnter ==
    /\ pc = "vad"
    /\ cur.chunk_len > 0
    /\ ~cur.vad_returned
    /\ cache[cur.session_id].audio_buffer >= MIN_SEGMENT_BYTES
    /\ "stream" \notin in_registry
    /\ in_registry' = in_registry \cup {"stream"}
    /\ UNCHANGED <<file_pc, file_segments, file_results, file_write>>

\* ------------------------------------------------------------------------
\* The session manager, the meeting endpoints and the websocket endpoint
\* (session_mgr.py, meeting.py, stream.py).  A meeting id is the session
\* id of its stream.
\* ------------------------------------------------------------------------
VARIABLES
    enable_global_lock, \* settings.ENABLE_GLOBAL_LOCK
    meetings,           \* status per meeting id, "absent" when not created
    transcripts,        \* number of items of self.transcripts[id]
    ws,                 \* where the websocket handler of the meeting is
    cb_final_done,      \* send_results has run its "if is_final" block
    produced,           \* history: non-partial results _process_stream
                        \* returned per session
    responses,          \* history: the HTTP responses, oldest first
    processing_finished, \* the sessions whose processing_finished is set
    finished_seen,      \* history: the meetings whose status was "finished"
    sent_results,       \* history: results sent on the websocket
    returned,           \* history: results _process_stream returned
    stop_log            \* history: what held when "stopped" was sent

stopVars == <<processing_finished, finished_seen, sent_results, returned,
              stop_log>>

apiVars == <<enable_global_lock, meetings, transcripts, ws, cb_final_done,
             produced, responses, stopVars>>

NoStop == [sent |-> FALSE, timed_out |-> FALSE, finished |-> FALSE,
           n_sent |-> 0, n_returned |-> 0]

ApiInit ==
    /\ enable_global_lock = FALSE
    /\ meetings = [m \in Sessions |-> "absent"]
    /\ transcripts = [m \in Sessions |-> 0]
    /\ ws = [m \in Sessions |-> "none"]
    /\ cb_final_done = FALSE
    /\ produced = [m \in Sessions |-> 0]
    /\ responses = << >>
    /\ processing_finished = {}
    /\ finished_seen = {}
    /\ sent_results = [m \in Sessions |-> 0]
    /\ returned = [m \in Sessions |-> 0]
    /\ stop_log = [m \in Sessions |-> NoStop]

\* main.py lines 63-64: --enable-global-lock sets the environment variable
\* config.py reads, before the application starts
EnableGlobalLock ==
    /\ asr_model = "None"
    /\ ~enable_global_lock
    /\ enable_global_lock' = TRUE
    /\ UNCHANGED <<meetings, transcripts, ws, cb_final_done, produced,
                   responses>>
    /\ UNCHANGED stopVars

\* A recording session is active: a client is connected and streaming
Recording == \E s \in Sessions : ws[s] = "streaming"

\* An HTTP response and what held when the request was served
Response(op, m, code, status) ==
    [op |-> op, id |-> m, code |-> code, status |-> status,
     recording |-> Recording, lock_enabled |-> enable_global_lock,
     streamed |-> ws[m] # "none"]

\* POST /meetings (meeting.py lines 12-14, session_mgr.py lines 64-91);
\* m is the fresh uuid.  No lock is consulted.
CreateMeeting(m) ==
    /\ asr_model = "loaded"
    /\ Len(responses) < MaxRequests
    /\ meetings[m] = "absent"
    /\ meetings' = [meetings EXCEPT ![m] = "active"]
    /\ transcripts' = [transcripts EXCEPT ![m] = 0]
    /\ responses' = Append(responses, Response("create", m, 200, "active"))
    /\ UNCHANGED <<enable_global_lock, ws, cb_final_done, produced>>
    /\ UNCHANGED stopVars

\* GET /meetings/{id} (meeting.py lines 17-22)
GetMeeting(m) ==
    /\ asr_model = "loaded"
    /\ Len(responses) < MaxRequests
    /\ responses' = Append(responses,
                           IF meetings[m] = "absent"
                           THEN Response("get", m, 404, "absent")
                           ELSE Response("get", m, 200, meetings[m]))
    /\ UNCHANGED <<enable_global_lock, meetings, transcripts, ws,
                   cb_final_done, produced>>
    /\ UNCHANGED stopVars

\* POST /meetings/{id}/stop (meeting.py lines 25-29, session_mgr.py lines
\* 99-107)
StopMeeting(m) ==
    /\ asr_model = "loaded"
    /\ Len(responses) < MaxRequests
    /\ IF meetings[m] = "absent"
       THEN /\ responses' = Append(responses,
                                   Response("stop", m, 404, "absent"))
            /\ UNCHANGED meetings
       ELSE /\ meetings' = [meetings EXCEPT ![m] = "processing"]
            /\ responses' = Append(responses,
                                   Response("stop", m, 200, "processing"))
    /\ UNCHANGED <<enable_global_lock, transcripts, ws, cb_final_done,
                   produced>>
    /\ UNCHANGED stopVars

\* session_mgr.py lines 109-115
SetStatus(m, status) ==
    meetings' = IF meetings[m] = "absent" THEN meetings
                ELSE [meetings EXCEPT ![m] = status]

\* stream.py lines 143-201: the handshake of a local-ASR session on an
\* active meeting registers the callback and starts the worker
Handshake(m) ==
    /\ asr_model = "loaded"
    /\ ws[m] = "none"
    /\ meetings[m] = "active"
    /\ Connect(m)
    /\ ws' = [ws EXCEPT ![m] = "streaming"]
    /\ UNCHANGED <<enable_global_lock, meetings, transcripts, cb_final_done,
                   produced, responses>>
    /\ UNCHANGED stopVars

\* stream.py lines 223-236: a binary message is enqueued
SendChunk(m, chunk_len, limit) ==
    /\ ws[m] = "streaming"
    /\ EnqueueAudio(m, chunk_len, FALSE, limit)
    /\ UNCHANGED apiVars

\* stream.py lines 242-269: the "stop" message sets the status, enqueues
\* the final marker and waits for processing_finished
ClientStop(m, limit) ==
    /\ ws[m] = "streaming"
    /\ SetStatus(m, "processing")
    /\ EnqueueAudio(m, 0, TRUE, limit)
    /\ ws' = [ws EXCEPT ![m] = "waiting"]
    /\ UNCHANGED <<enable_global_lock, transcripts, cb_final_done, produced,
                   responses>>
    /\ UNCHANGED stopVars

\* unregister_callback (lines 525-528) of a callback that may be gone
DropCallback(s) ==
    IF s \in callbacks THEN UnregisterCallback(s) ELSE UNCHANGED workerVars

\* Variant of the wait that takes every return for a set event.
WaitFinished_Always(m) == TRUE

\* stream.py lines 266-274: wait_for returns normally when the event is
\* set, and with TimeoutError when the 30 s are over first
WaitFinished(m) == m \in processing_finished

\* stream.py lines 266-276 and 322-342: the wait ends (the event is set or
\* the 30 s are over), the loop is left and the finally clause
\* unregisters the callback and sends "stopped" to the connected client
WaitOver(m) ==
    /\ ws[m] = "waiting"
    /\ DropCallback(m)
    /\ ws' = [ws EXCEPT ![m] = "closed"]
    /\ stop_log' = [stop_log EXCEPT ![m] =
                       [sent |-> TRUE, timed_out |-> ~WaitFinished(m),
                        finished |-> m \in finished_seen,
                        n_sent |-> sent_results[m],
                        n_returned |-> returned[m]]]
    /\ UNCHANGED <<enable_global_lock, meetings, transcripts, cb_final_done,
                   produced, responses, processing_finished, finished_seen,
                   sent_results, returned>>

\* stream.py lines 280-309 and 322-332: WebSocketDisconnect.  The status
\* is set, the callback is unregistered (line 290), then the final marker
\* is enqueued (line 303); enqueue_audio does not suspend.
Disconnect(m, limit) ==
    /\ ws[m] = "streaming"
    /\ SetStatus(m, "processing")
    /\ callbacks' = callbacks \ {m}
    /\ QueuePut(m, 0, TRUE, limit)
    /\ ws' = [ws EXCEPT ![m] = "disconnected"]
    /\ UNCHANGED <<enable_global_lock, transcripts, cb_final_done, produced,
                   responses>>
    /\ UNCHANGED stopVars

\* stream.py lines 220-222 and 322-332: receive raises another exception,
\* the loop is left and the finally clause unregisters the callback
ReceiveFails(m) ==
    /\ ws[m] = "streaming"
    /\ DropCallback(m)
    /\ ws' = [ws EXCEPT ![m] = "broken"]
    /\ UNCHANGED <<enable_global_lock, meetings, transcripts, cb_final_done,
                   produced, responses>>
    /\ UNCHANGED stopVars

\* Number of non-partial results of a result list
NonPartial(res) ==
    Cardinality({i \in 1..Len(res) : res[i].kind # "partial"})

\* stream.py lines 74-98: the number of results of a list that
\* send_results hands to add_transcript, those whose is_partial is absent
\* or false
SavedResults(res) ==
    Cardinality({i \in 1..Len(res) : res[i].is_partial # "true"})

\* stream.py lines 100-104: a result goes to the websocket while the
\* handler has not closed the connection
ConnectionOpen(m) == ws[m] \in {"streaming", "waiting"}

\* _process_stream has returned to the worker (lines 546-554); with a
\* callback registered send_results starts, saves every non-partial
\* result and sends every result (stream.py lines 71-113)
WorkerResumeSession(limit) ==
    /\ WorkerResume(limit)
    /\ LET s == item.session_id
           n == NonPartial(results)
           called == s \in callbacks /\ ~cur.raised
       IN  /\ produced' = [produced EXCEPT ![s] = @ + n]
           /\ returned' = [returned EXCEPT ![s] = @ + Len(results)]
           /\ transcripts' =
                 IF called /\ meetings[s] # "absent"
                 THEN [transcripts EXCEPT ![s] = @ + SavedResults(results)]
                 ELSE transcripts
           /\ sent_results' =
                 IF called /\ ConnectionOpen(s)
                 THEN [sent_results EXCEPT ![s] = @ + Len(results)]
                 ELSE sent_results
    /\ cb_final_done' = FALSE
    /\ UNCHANGED <<enable_global_lock, meetings, ws, responses,
                   processing_finished, finished_seen, stop_log>>

\* stream.py lines 118-125: send_results of the final item sets the
\* status, unregisters the callback and sets processing_finished
SendResultsFinal ==
    /\ wpc = "callback"
    /\ item.is_final
    /\ ~cb_final_done
    /\ SetStatus(item.session_id, "finished")
    /\ DropCallback(item.session_id)
    /\ cb_final_done' = TRUE
    /\ processing_finished' = processing_finished \cup {item.session_id}
    /\ finished_seen' =
          finished_seen \cup {m \in Sessions : meetings'[m] = "finished"}
    /\ UNCHANGED <<enable_global_lock, transcripts, ws, produced, responses,
                   sent_results, returned, stop_log>>

\* send_results has returned to the worker
WorkerCallbackDoneSession(limit) ==
    /\ item.is_final => cb_final_done
    /\ WorkerCallbackDone(limit)
    /\ UNCHANGED apiVars

\* ------------------------------------------------------------------------
\* Inputs of the stream specification.  The callers (stream.py) enqueue
\* audio chunks with is_final = False and the empty chunk with
\* is_final = True.
\* ------------------------------------------------------------------------
StreamSessions == {"A"}
ChunkLens == {3200, 9600, 176000}
ChunkInputs == (ChunkLens \X {FALSE}) \cup {<<0, TRUE>>}
VadStarts == {-1, 0, 300}
VadEnds == {-1, 301, 400}
VadPairs == VadStarts \X VadEnds

\* Finalizer outcomes drawn in the stream specification: the embedding is
\* available and matches every registered profile (the first segment
\* registers Speaker_1, later ones are attributed to it); the ASR yields a
\* text or none.
StreamOracles(reg) ==
    {[text |-> b, ptext |-> b, emb |-> "ok",
      scores |-> [i \in 1..Len(reg) |-> 45], gender |-> "M",
      fail |-> {}] : b \in BOOLEAN}

\* ------------------------------------------------------------------------
\* The worker tasks (asr_engine.py lines 487-567) with every task that
\* start_worker creates followed on its own: self.worker_task refers to one
\* of them or to none, and a task that is no longer referred to keeps
\* running.  _process_stream is one executor call here: a task is in
\* "processing" from run_in_executor (line 543) to its resumption.
\* ------------------------------------------------------------------------
VARIABLES
    tasks,           \* the tasks created so far, in order: [pc, must_cancel]
    task_ref,        \* self.worker_task: 0 for None, else an index of tasks
    tq_made,         \* self.queue is not None
    tq,              \* the number of items in self.queue
    tq_unfinished,   \* Queue._unfinished_tasks
    getters,         \* Queue._getters: the tasks suspended in get, oldest first
    tstop,           \* stop_worker: where it is suspended, the task it awaits
    orphans,         \* executor calls still running for a cancelled task
    tput,            \* history: items put
    tgot             \* history: items a task has taken and handed to the executor

taskVars == <<tasks, task_ref, tq_made, tq, tq_unfinished, getters, tstop,
              orphans, tput, tgot>>

MaxTasks == 3
MaxTaskPuts == 3

TaskInit ==
    /\ tasks = << >>
    /\ task_ref = 0
    /\ tq_made = FALSE
    /\ tq = 0
    /\ tq_unfinished = 0
    /\ getters = << >>
    /\ tstop = [pc |-> "idle", awaited |-> 0]
    /\ orphans = 0
    /\ tput = 0
    /\ tgot = 0

\* Line 494: "self.worker_task is None or self.worker_task.done()"
RefNeedsTask == task_ref = 0 \/ tasks[task_ref].pc = "done"

\* Lines 494-495: the tasks and the reference after start_worker
StartedTasks ==
    IF RefNeedsTask
    THEN Append(tasks, [pc |-> "fresh", must_cancel |-> FALSE])
    ELSE tasks

StartedRef == IF Len(StartedTasks) > Len(tasks) THEN Len(tasks) + 1 ELSE task_ref

\* start_worker (lines 487-496); stream.py line 201 calls it for every
\* connection.
TaskStartWorker ==
    /\ Len(StartedTasks) <= MaxTasks
    /\ tq_made' = TRUE
    /\ tasks' = StartedTasks
    /\ task_ref' = StartedRef
    /\ UNCHANGED <<tq, tq_unfinished, getters, tstop, orphans, tput, tgot>>

\* enqueue_audio (lines 512-519): start_worker only if there is no queue,
\* then put, which does not suspend on an unbounded queue: it counts the
\* item as unfinished and wakes the oldest waiting getter.
TaskEnqueueAudio ==
    /\ tput < MaxTaskPuts
    /\ ~tq_made => Len(StartedTasks) <= MaxTasks
    /\ LET ts == IF tq_made THEN tasks ELSE StartedTasks
       IN  tasks' = IF getters # << >>
                    THEN [ts EXCEPT ![Head(getters)].pc = "get_woken"]
                    ELSE ts
    /\ getters' = IF getters # << >> THEN Tail(getters) ELSE getters
    /\ task_ref' = IF tq_made THEN task_ref ELSE StartedRef
    /\ tq_made' = TRUE
    /\ tq' = tq + 1
    /\ tq_unfinished' = tq_unfinished + 1
    /\ tput' = tput + 1
    /\ UNCHANGED <<tstop, orphans, tgot>>

\* Task i at "await self.queue.get()" (line 537), the queue holding q items
\* and n unfinished ones: with an item it takes it and hands it to the
\* executor (lines 542-546); with none it suspends as the newest getter.
TaskLoop(i, q, n) ==
    /\ tq_unfinished' = n
    /\ IF q > 0
       THEN /\ tq' = q - 1
            /\ tasks' = [tasks EXCEPT ![i].pc = "processing"]
            /\ tgot' = tgot + 1
            /\ UNCHANGED getters
       ELSE /\ tq' = q
            /\ tasks' = [tasks EXCEPT ![i].pc = "get_wait"]
            /\ getters' = Append(getters, i)
            /\ UNCHANGED tgot

\* A task runs: its first step, or its resumption in get after a put.  A
\* stop_worker woken by the join runs before a task woken after it.
TaskGet(i) ==
    /\ i \in DOMAIN tasks
    /\ tasks[i].pc \in {"fresh", "get_woken"}
    /\ ~tasks[i].must_cancel
    /\ tasks[i].pc = "get_woken" => tstop.pc # "join_woken"
    /\ TaskLoop(i, tq, tq_unfinished)
    /\ UNCHANGED <<task_ref, tq_made, tstop, orphans, tput>>

\* Queue.task_done sets the event stop_worker's join waits on when the
\* count reaches 0.
TaskAfterTaskDone(st, n) ==
    IF st.pc = "joining" /\ n = 0 THEN [st EXCEPT !.pc = "join_woken"] ELSE st

\* Lines 548-561: the executor call has returned; a registered coroutine
\* callback is awaited (has_callback), otherwise task_done and the next get.
TaskResume(i, has_callback) ==
    /\ i \in DOMAIN tasks
    /\ tasks[i].pc = "processing"
    /\ ~tasks[i].must_cancel
    /\ IF has_callback
       THEN /\ tasks' = [tasks EXCEPT ![i].pc = "callback"]
            /\ UNCHANGED <<tq, tq_unfinished, getters, tstop, tgot>>
       ELSE /\ TaskLoop(i, tq, tq_unfinished - 1)
            /\ tstop' = TaskAfterTaskDone(tstop, tq_unfinished - 1)
    /\ UNCHANGED <<task_ref, tq_made, orphans, tput>>

\* The callback has returned or raised (lines 556-561): task_done and the
\* next get.
TaskCallbackDone(i) ==
    /\ i \in DOMAIN tasks
    /\ tasks[i].pc = "callback"
    /\ ~tasks[i].must_cancel
    /\ TaskLoop(i, tq, tq_unfinished - 1)
    /\ tstop' = TaskAfterTaskDone(tstop, tq_unfinished - 1)
    /\ UNCHANGED <<task_ref, tq_made, orphans, tput>>

\* The cancellation reaches task i at its suspension point.  In get, the
\* getter is withdrawn, and a task that had been woken for an item passes
\* the wake-up on (Queue.get, except clause); inside the inner try the
\* finally clause calls task_done (lines 560-561) while the executor call
\* goes on in its thread.  The loop ends (lines 563-564).
TaskCancelled(i) ==
    /\ i \in DOMAIN tasks
    /\ tasks[i].must_cancel
    /\ tasks[i].pc # "done"
    /\ LET p == tasks[i].pc
           n == IF p \in {"processing", "callback"}
                THEN tq_unfinished - 1 ELSE tq_unfinished
           gs == SelectSeq(getters, LAMBDA j : j # i)
           pass == p = "get_woken" /\ tq > 0 /\ gs # << >>
           ended == [tasks EXCEPT ![i] = [pc |-> "done", must_cancel |-> FALSE]]
       IN  /\ tasks' = IF pass
                       THEN [ended EXCEPT ![Head(gs)].pc = "get_woken"]
                       ELSE ended
           /\ getters' = IF pass THEN Tail(gs) ELSE gs
           /\ tq_unfinished' = n
           /\ orphans' = IF p = "processing" THEN orphans + 1 ELSE orphans
           /\ tstop' = IF tstop.pc = "awaiting" /\ tstop.awaited = i
                       THEN [tstop EXCEPT !.pc = "resuming"]
                       ELSE TaskAfterTaskDone(tstop, n)
    /\ UNCHANGED <<task_ref, tq_made, tq, tput, tgot>>

\* The executor call of a cancelled task returns; nobody waits for it.
OrphanReturn ==
    /\ orphans > 0
    /\ orphans' = orphans - 1
    /\ UNCHANGED <<tasks, task_ref, tq_made, tq, tq_unfinished, getters,
                   tstop, tput, tgot>>

\* Lines 503-510 of stop_worker: cancel the task referred to and await it.
\* A task that is done already is awaited without suspending.
TaskStopCancelPart ==
    IF task_ref # 0
    THEN IF tasks[task_ref].pc = "done"
         THEN /\ task_ref' = 0
              /\ tstop' = [pc |-> "idle", awaited |-> 0]
              /\ UNCHANGED tasks
         ELSE /\ tasks' = [tasks EXCEPT ![task_ref].must_cancel = TRUE]
              /\ tstop' = [pc |-> "awaiting", awaited |-> task_ref]
              /\ UNCHANGED task_ref
    ELSE /\ tstop' = [pc |-> "idle", awaited |-> 0]
         /\ UNCHANGED <<tasks, task_ref>>

\* stop_worker is called (main.py line 30): with unfinished items it
\* suspends in queue.join() (lines 500-501), otherwise it goes on to cancel.
TaskStopWorker ==
    /\ tstop.pc = "idle"
    /\ IF tq_made /\ tq_unfinished > 0
       THEN /\ tstop' = [pc |-> "joining", awaited |-> 0]
            /\ UNCHANGED <<tasks, task_ref>>
       ELSE TaskStopCancelPart
    /\ UNCHANGED <<tq_made, tq, tq_unfinished, getters, orphans, tput, tgot>>

\* stop_worker resumes from the join and cancels the task referred to.
TaskStopCancel ==
    /\ tstop.pc = "join_woken"
    /\ TaskStopCancelPart
    /\ UNCHANGED <<tq_made, tq, tq_unfinished, getters, orphans, tput, tgot>>

\* stop_worker resumes from "await self.worker_task" and clears the
\* reference, whatever it refers to by then (line 509).
TaskStopFinish ==
    /\ tstop.pc = "resuming"
    /\ task_ref' = 0
    /\ tstop' = [pc |-> "idle", awaited |-> 0]
    /\ UNCHANGED <<tasks, tq_made, tq, tq_unfinished, getters, orphans, tput,
                   tgot>>

vars == <<streamVars, lockVars, workerVars, modelVars, fileVars, apiVars,
         taskVars>>

Init ==
    /\ StreamInit /\ LockInit /\ WorkerInit /\ ModelInit /\ FileInit
    /\ ApiInit /\ TaskInit

\* The stream specification: the models are loaded (main.py line 22), then
\* _process_stream is called chunk after chunk for one session, the gate
\* and the queue left alone.
StreamNext ==
    \/ LoadModels("ok") /\ UNCHANGED <<streamVars, lockVars, workerVars, fileVars, apiVars, taskVars>>
    \/ \E s \in StreamSessions, in \in ChunkInputs, dt \in ClockSteps :
          /\ AppendChunk(s, in[1], in[2], dt, MaxChunks)
          /\ UNCHANGED <<lockVars, workerVars, modelVars, fileVars, apiVars, taskVars>>
    \/ \E pair \in VadPairs, o \in StreamOracles(speaker_registry) :
          /\ VadSegment(pair, o, MaxVadPairs)
          /\ UNCHANGED <<lockVars, workerVars, modelVars, fileVars, apiVars, taskVars>>
    \/ \E o \in StreamOracles(speaker_registry) :
          Guards(o, FALSE) /\ UNCHANGED <<lockVars, workerVars, modelVars, fileVars, apiVars, taskVars>>
    \/ \E o \in StreamOracles(speaker_registry) :
          FinalFlush(o) /\ UNCHANGED <<lockVars, workerVars, modelVars, fileVars, apiVars, taskVars>>

Next == StreamNext

Spec == Init /\ [][Next]_vars

\* ------------------------------------------------------------------------
\* The throttle specification: one session whose span is opened by the VAD
\* and never closed, chunks of 600 ms arriving at different paces, partial
\* ASR calls that yield a text or none.  The partial emissions are logged.
\* ------------------------------------------------------------------------
ThrottleChunkInputs == {<<19200, FALSE>>, <<0, TRUE>>}
ThrottleVadPairs == {<<0, -1>>}
ThrottleClockSteps == {500, 501}

ThrottleOracles(reg) ==
    {[text |-> TRUE, ptext |-> b, emb |-> "ok",
      scores |-> [i \in 1..Len(reg) |-> 45], gender |-> "M",
      fail |-> {}] : b \in BOOLEAN}

ThrottleNext ==
    \/ LoadModels("ok") /\ UNCHANGED <<streamVars, lockVars, workerVars, fileVars, apiVars, taskVars>>
    \/ \E s \in StreamSessions, in \in ThrottleChunkInputs,
          dt \in ThrottleClockSteps :
          /\ AppendChunk(s, in[1], in[2], dt, MaxThrottleChunks)
          /\ UNCHANGED <<lockVars, workerVars, modelVars, fileVars, apiVars, taskVars>>
    \/ \E pair \in ThrottleVadPairs, o \in ThrottleOracles(speaker_registry) :
          /\ VadSegment(pair, o, MaxVadPairs)
          /\ UNCHANGED <<lockVars, workerVars, modelVars, fileVars, apiVars, taskVars>>
    \/ \E o \in ThrottleOracles(speaker_registry) :
          Guards(o, TRUE) /\ UNCHANGED <<lockVars, workerVars, modelVars, fileVars, apiVars, taskVars>>
    \/ \E o \in ThrottleOracles(speaker_registry) :
          FinalFlush(o) /\ UNCHANGED <<lockVars, workerVars, modelVars, fileVars, apiVars, taskVars>>

SpecThrottle == Init /\ [][ThrottleNext]_vars

\* ------------------------------------------------------------------------
\* The speaker specification: every chunk is closed by the VAD as one
\* segment (the whole buffer), and the oracles of the speaker resolver take
\* every outcome.
\* ------------------------------------------------------------------------
SpeakerChunkInputs == {<<9600, FALSE>>, <<19200, FALSE>>, <<0, TRUE>>}

\* The VAD pair that spans the buffer of session cache c.
WholeBufferPair(c) ==
    <<c.buffer_offset_bytes \div BYTES_PER_MS,
      (c.buffer_offset_bytes + c.audio_buffer) \div BYTES_PER_MS>>

SpeakerOracles(reg) ==
    {[text |-> r[1], ptext |-> r[1], emb |-> r[2], scores |-> r[3],
      gender |-> r[4], fail |-> {}] :
        r \in BOOLEAN \X {"ok", "none", "raise"} \X [1..Len(reg) -> Scores]
               \X {"M", "F"}}

SpeakerNext ==
    \/ \E outcome \in LoadOutcomes :
          LoadModels(outcome) /\ UNCHANGED <<streamVars, lockVars, workerVars, fileVars, apiVars, taskVars>>
    \/ \E s \in StreamSessions, in \in SpeakerChunkInputs, dt \in ClockSteps :
          /\ AppendChunk(s, in[1], in[2], dt, MaxSpeakerChunks)
          /\ UNCHANGED <<lockVars, workerVars, modelVars, fileVars, apiVars, taskVars>>
    \/ \E o \in SpeakerOracles(speaker_registry) :
          /\ pc = "vad"
          /\ cache[cur.session_id].audio_buffer > 0
          /\ VadSegment(WholeBufferPair(cache[cur.session_id]), o,
                        MaxSpeakerChunks)
          /\ UNCHANGED <<lockVars, workerVars, modelVars, fileVars, apiVars, taskVars>>
    \/ \E o \in StreamOracles(speaker_registry) :
          Guards(o, FALSE) /\ UNCHANGED <<lockVars, workerVars, modelVars, fileVars, apiVars, taskVars>>
    \/ \E o \in StreamOracles(speaker_registry) :
          FinalFlush(o) /\ UNCHANGED <<lockVars, workerVars, modelVars, fileVars, apiVars, taskVars>>

SpecSpeaker == Init /\ [][SpeakerNext]_vars

\* ------------------------------------------------------------------------
\* The gate specification: any calls of try_acquire and release by any
\* owners.
\* ------------------------------------------------------------------------
LockNext ==
    \/ \E owner_id \in Owners :
          TryAcquire(owner_id) /\ UNCHANGED <<streamVars, workerVars, modelVars, fileVars, apiVars, taskVars>>
    \/ \E owner_id \in Owners :
          Release(owner_id) /\ UNCHANGED <<streamVars, workerVars, modelVars, fileVars, apiVars, taskVars>>

SpecLock == Init /\ [][LockNext]_vars

\* The gate specification of the callers that pass a session id: any calls
\* of try_acquire and release by owners other than None.
NamedOwners == Owners \ {NoOwner}

NamedLockNext ==
    \/ \E owner_id \in NamedOwners :
          TryAcquire(owner_id) /\ UNCHANGED <<streamVars, workerVars, modelVars, fileVars, apiVars, taskVars>>
    \/ \E owner_id \in NamedOwners :
          Release(owner_id) /\ UNCHANGED <<streamVars, workerVars, modelVars, fileVars, apiVars, taskVars>>

SpecNamedLock == Init /\ [][NamedLockNext]_vars

\* ------------------------------------------------------------------------
\* The worker specification: the application has started (the lifespan
\* handler of main.py loads the models before requests are served), then
\* connections of two sessions that register,
\* enqueue chunks and then the final marker and unregister, the worker, the
\* executor thread running _process_stream, and stop_worker, interleaved
\* as the event loop allows.
\* ------------------------------------------------------------------------
WorkerChunkInputs == {<<9600, FALSE>>, <<0, TRUE>>}
WorkerVadPairs == {<<0, 300>>}
WorkerOracles(reg) == {o \in StreamOracles(reg) : o.text}

WorkerNext ==
    \/ LoadModels("ok") /\ UNCHANGED <<streamVars, lockVars, workerVars, fileVars, apiVars, taskVars>>
    \/ \E s \in Sessions :
          /\ asr_model = "loaded"
          /\ Connect(s) /\ UNCHANGED <<streamVars, lockVars, modelVars, fileVars, apiVars, taskVars>>
    \/ \E s \in Sessions :
          UnregisterCallback(s) /\ UNCHANGED <<streamVars, lockVars, modelVars, fileVars, apiVars, taskVars>>
    \/ \E s \in Sessions, in \in WorkerChunkInputs :
          /\ asr_model = "loaded"
          /\ in[2] => enq[s] > 0
          /\ EnqueueAudio(s, in[1], in[2], MaxEnqueues)
          /\ UNCHANGED <<streamVars, lockVars, modelVars, fileVars, apiVars, taskVars>>
    \/ WorkerGet(MaxEnqueues + 1) /\ UNCHANGED <<lockVars, modelVars, fileVars, apiVars, taskVars>>
    \/ \E pair \in WorkerVadPairs, o \in WorkerOracles(speaker_registry) :
          /\ VadSegment(pair, o, MaxWorkerVadPairs)
          /\ UNCHANGED <<lockVars, workerVars, modelVars, fileVars, apiVars, taskVars>>
    \/ \E o \in WorkerOracles(speaker_registry) :
          Guards(o, FALSE) /\ UNCHANGED <<lockVars, workerVars, modelVars, fileVars, apiVars, taskVars>>
    \/ \E o \in WorkerOracles(speaker_registry) :
          FinalFlush(o) /\ UNCHANGED <<lockVars, workerVars, modelVars, fileVars, apiVars, taskVars>>
    \/ WorkerResume(MaxEnqueues + 1) /\ UNCHANGED <<lockVars, modelVars, fileVars, apiVars, taskVars>>
    \/ WorkerCallbackDone(MaxEnqueues + 1) /\ UNCHANGED <<lockVars, modelVars, fileVars, apiVars, taskVars>>
    \/ WorkerCancelled /\ UNCHANGED <<streamVars, lockVars, modelVars, fileVars, apiVars, taskVars>>
    \/ StopWorker /\ UNCHANGED <<streamVars, lockVars, modelVars, fileVars, apiVars, taskVars>>
    \/ StopCancel /\ UNCHANGED <<streamVars, lockVars, modelVars, fileVars, apiVars, taskVars>>
    \/ StopFinish /\ UNCHANGED <<streamVars, lockVars, modelVars, fileVars, apiVars, taskVars>>

SpecWorker == Init /\ [][WorkerNext]_vars

\* ------------------------------------------------------------------------
\* The task specification: connections call start_worker and enqueue_audio,
\* the lifespan handler calls stop_worker, and the tasks, the executor and
\* stop_worker run interleaved as the event loop allows.
\* ------------------------------------------------------------------------
TaskIds == 1..MaxTasks

TaskNext ==
    \/ TaskStartWorker /\ UNCHANGED <<streamVars, lockVars, workerVars, modelVars, fileVars, apiVars>>
    \/ TaskEnqueueAudio /\ UNCHANGED <<streamVars, lockVars, workerVars, modelVars, fileVars, apiVars>>
    \/ \E i \in TaskIds :
          TaskGet(i) /\ UNCHANGED <<streamVars, lockVars, workerVars, modelVars, fileVars, apiVars>>
    \/ \E i \in TaskIds, has_callback \in BOOLEAN :
          TaskResume(i, has_callback) /\ UNCHANGED <<streamVars, lockVars, workerVars, modelVars, fileVars, apiVars>>
    \/ \E i \in TaskIds :
          TaskCallbackDone(i) /\ UNCHANGED <<streamVars, lockVars, workerVars, modelVars, fileVars, apiVars>>
    \/ \E i \in TaskIds :
          TaskCancelled(i) /\ UNCHANGED <<streamVars, lockVars, workerVars, modelVars, fileVars, apiVars>>
    \/ OrphanReturn /\ UNCHANGED <<streamVars, lockVars, workerVars, modelVars, fileVars, apiVars>>
    \/ TaskStopWorker /\ UNCHANGED <<streamVars, lockVars, workerVars, modelVars, fileVars, apiVars>>
    \/ TaskStopCancel /\ UNCHANGED <<streamVars, lockVars, workerVars, modelVars, fileVars, apiVars>>
    \/ TaskStopFinish /\ UNCHANGED <<streamVars, lockVars, workerVars, modelVars, fileVars, apiVars>>

SpecTasks == Init /\ [][TaskNext]_vars

\* The task specification under fair scheduling: the event loop runs every
\* task and stop_worker when they are ready, and every executor call
\* returns.  The calls of the connections and of the lifespan handler
\* (start_worker, enqueue_audio, stop_worker) are not forced.
TaskRest ==
    UNCHANGED <<streamVars, lockVars, workerVars, modelVars, fileVars, apiVars>>

TaskFairness ==
    /\ \A i \in TaskIds :
          /\ WF_vars(TaskGet(i) /\ TaskRest)
          /\ WF_vars((\E has_callback \in BOOLEAN : TaskResume(i, has_callback))
                     /\ TaskRest)
          /\ WF_vars(TaskCallbackDone(i) /\ TaskRest)
          /\ WF_vars(TaskCancelled(i) /\ TaskRest)
    /\ WF_vars(OrphanReturn /\ TaskRest)
    /\ WF_vars(TaskStopCancel /\ TaskRest)
    /\ WF_vars(TaskStopFinish /\ TaskRest)

SpecTasksFair == SpecTasks /\ TaskFairness

\* ------------------------------------------------------------------------
\* The fault specification: one session in which any of the oracle calls
\* may raise: the VAD call of a chunk, and noise reduction, ASR and
\* punctuation of a segment (the partial ASR call included).
\* ------------------------------------------------------------------------
FaultChunkInputs == {<<9600, FALSE>>, <<176000, FALSE>>, <<0, TRUE>>}
FaultVadPairs == {<<0, -1>>, <<0, 300>>, <<-1, 300>>}

FaultOracles(reg) ==
    {[text |-> r[1], ptext |-> r[1], emb |-> "ok",
      scores |-> [i \in 1..Len(reg) |-> 45], gender |-> "M", fail |-> r[2]] :
        r \in BOOLEAN \X {{}, {"nr"}, {"asr"}, {"punc"}}}

\* The oracles of a segment returning an empty result, none raising.
QuietOracle(reg) ==
    [text |-> FALSE, ptext |-> FALSE, emb |-> "ok",
     scores |-> [i \in 1..Len(reg) |-> 45], gender |-> "M", fail |-> {}]

FaultNext ==
    \/ LoadModels("ok") /\ UNCHANGED <<streamVars, lockVars, workerVars, fileVars, apiVars, taskVars>>
    \/ \E s \in StreamSessions, in \in FaultChunkInputs, dt \in ClockSteps :
          /\ AppendChunk(s, in[1], in[2], dt, MaxChunks)
          /\ UNCHANGED <<lockVars, workerVars, modelVars, fileVars, apiVars, taskVars>>
    \/ VadFails /\ UNCHANGED <<lockVars, workerVars, modelVars, fileVars, apiVars, taskVars>>
    \/ \E pair \in FaultVadPairs, o \in FaultOracles(speaker_registry) :
          /\ VadSegment(pair, o, MaxVadPairs)
          /\ UNCHANGED <<lockVars, workerVars, modelVars, fileVars, apiVars, taskVars>>
    \/ \E o \in FaultOracles(speaker_registry) :
          Guards(o, FALSE) /\ UNCHANGED <<lockVars, workerVars, modelVars, fileVars, apiVars, taskVars>>
    \/ \E o \in FaultOracles(speaker_registry) :
          FinalFlush(o) /\ UNCHANGED <<lockVars, workerVars, modelVars, fileVars, apiVars, taskVars>>

SpecFaults == Init /\ [][FaultNext]_vars

\* ------------------------------------------------------------------------
\* The specification of an engine whose models are not loaded (load_models
\* was not called): connections register and enqueue chunks and the final
\* marker, and the worker handles them.
\* ------------------------------------------------------------------------
UnloadedNext ==
    \/ \E s \in Sessions :
          Connect(s) /\ UNCHANGED <<streamVars, lockVars, modelVars, fileVars, apiVars, taskVars>>
    \/ \E s \in Sessions, in \in WorkerChunkInputs :
          /\ s \in callbacks
          /\ in[2] => enq[s] > 0
          /\ EnqueueAudio(s, in[1], in[2], MaxEnqueues)
          /\ UNCHANGED <<streamVars, lockVars, modelVars, fileVars, apiVars, taskVars>>
    \/ WorkerGet(MaxEnqueues + 1) /\ UNCHANGED <<lockVars, modelVars, fileVars, apiVars, taskVars>>
    \/ WorkerResume(MaxEnqueues + 1) /\ UNCHANGED <<lockVars, modelVars, fileVars, apiVars, taskVars>>

SpecUnloaded == Init /\ [][UnloadedNext]_vars

\* ------------------------------------------------------------------------
\* The registry specification: a stream whose chunks of 0.6 s are each
\* closed by the VAD as one segment, and a re-transcription started while
\* the stream is being processed.
\* ------------------------------------------------------------------------
RegistryChunkInputs == {<<19200, FALSE>>, <<0, TRUE>>}

RegistryOracles(reg) ==
    {[text |-> TRUE, ptext |-> TRUE, emb |-> "ok", scores |-> sc,
      gender |-> "M", fail |-> {}] : sc \in [1..Len(reg) -> {20, 45}]}

RegistryNext ==
    \/ LoadModels("ok") /\ UNCHANGED <<streamVars, lockVars, workerVars, fileVars, apiVars, taskVars>>
    \/ \E s \in StreamSessions, in \in RegistryChunkInputs, dt \in ClockSteps :
          /\ AppendChunk(s, in[1], in[2], dt, MaxSpeakerChunks)
          /\ UNCHANGED <<lockVars, workerVars, modelVars, fileVars, apiVars, taskVars>>
    \/ StreamEnter /\ UNCHANGED <<streamVars, lockVars, workerVars, modelVars, apiVars, taskVars>>
    \/ \E o \in RegistryOracles(speaker_registry) :
          /\ "stream" \in in_registry
          /\ VadSegment(WholeBufferPair(cache[cur.session_id]), o,
                        MaxSpeakerChunks)
          /\ in_registry' = in_registry \ {"stream"}
          /\ UNCHANGED <<file_pc, file_segments, file_results, file_write>>
          /\ UNCHANGED <<lockVars, workerVars, modelVars, apiVars, taskVars>>
    \/ \E o \in RegistryOracles(speaker_registry) :
          /\ "stream" \notin in_registry
          /\ Guards(o, FALSE)
          /\ UNCHANGED <<lockVars, workerVars, modelVars, fileVars, apiVars, taskVars>>
    \/ \E o \in RegistryOracles(speaker_registry) :
          FinalFlush(o) /\ UNCHANGED <<lockVars, workerVars, modelVars, fileVars, apiVars, taskVars>>
    \/ \E n \in 1..MaxFileSegments :
          FileStart(n) /\ UNCHANGED <<streamVars, lockVars, workerVars, modelVars, apiVars, taskVars>>
    \/ FileEnter /\ UNCHANGED <<streamVars, lockVars, workerVars, modelVars, apiVars, taskVars>>
    \/ \E o \in RegistryOracles(speaker_registry) :
          FileScan(o) /\ UNCHANGED <<lockVars, workerVars, modelVars, apiVars, taskVars>>
    \/ \E o \in RegistryOracles(speaker_registry) :
          FileSegment(o) /\ UNCHANGED <<lockVars, workerVars, modelVars, apiVars, taskVars>>

SpecRegistry == Init /\ [][RegistryNext]_vars

\* ------------------------------------------------------------------------
\* The backlog specification: chunks of 5.5 s and a VAD that reports
\* nothing, or a start that it never closes, or a new start with every
\* chunk.
\* ------------------------------------------------------------------------
BacklogChunkBytes == 5500 * BYTES_PER_MS
BacklogChunkInputs == {<<BacklogChunkBytes, FALSE>>, <<0, TRUE>>}

\* A start reported half a second before the end of the audio received
LateStart(c) == (c.buffer_offset_bytes + c.audio_buffer) \div BYTES_PER_MS - 500

BacklogVadPairs(c) == {<<0, -1>>, <<LateStart(c), -1>>}

BacklogNext ==
    \/ LoadModels("ok") /\ UNCHANGED <<streamVars, lockVars, workerVars, fileVars, apiVars, taskVars>>
    \/ \E s \in StreamSessions, in \in BacklogChunkInputs, dt \in ClockSteps :
          /\ AppendChunk(s, in[1], in[2], dt, MaxBacklogChunks)
          /\ UNCHANGED <<lockVars, workerVars, modelVars, fileVars, apiVars, taskVars>>
    \/ /\ pc = "vad"
       /\ ~cur.vad_returned
       /\ \E pair \in BacklogVadPairs(cache[cur.session_id]) :
          /\ VadSegment(pair, QuietOracle(speaker_registry), MaxBacklogVadPairs)
          /\ UNCHANGED <<lockVars, workerVars, modelVars, fileVars, apiVars, taskVars>>
    \/ \E b \in BOOLEAN :
          /\ Guards([QuietOracle(speaker_registry) EXCEPT !.text = b], FALSE)
          /\ UNCHANGED <<lockVars, workerVars, modelVars, fileVars, apiVars, taskVars>>
    \/ FinalFlush(QuietOracle(speaker_registry))
          /\ UNCHANGED <<lockVars, workerVars, modelVars, fileVars, apiVars, taskVars>>

SpecBacklog == Init /\ [][BacklogNext]_vars

\* ------------------------------------------------------------------------
\* The duration specification: chunks of 5.5 s and of 0.1 s, and a VAD that
\* reports a start at 0 ms or the end of the open span at the end of the
\* audio received.
\* ------------------------------------------------------------------------
DurationChunkInputs ==
    {<<BacklogChunkBytes, FALSE>>, <<3200, FALSE>>, <<0, TRUE>>}

\* The timestamp of the end of the audio received
BufferEndMs(c) == (c.buffer_offset_bytes + c.audio_buffer) \div BYTES_PER_MS

DurationVadPairs(c) == {<<0, -1>>, <<-1, BufferEndMs(c)>>}

DurationNext ==
    \/ LoadModels("ok") /\ UNCHANGED <<streamVars, lockVars, workerVars, fileVars, apiVars, taskVars>>
    \/ \E s \in StreamSessions, in \in DurationChunkInputs, dt \in ClockSteps :
          /\ AppendChunk(s, in[1], in[2], dt, MaxChunks)
          /\ UNCHANGED <<lockVars, workerVars, modelVars, fileVars, apiVars, taskVars>>
    \/ /\ pc = "vad"
       /\ \E pair \in DurationVadPairs(cache[cur.session_id]) :
             VadSegment(pair, QuietOracle(speaker_registry), MaxVadPairs)
       /\ UNCHANGED <<lockVars, workerVars, modelVars, fileVars, apiVars, taskVars>>
    \/ Guards(QuietOracle(speaker_registry), FALSE)
          /\ UNCHANGED <<lockVars, workerVars, modelVars, fileVars, apiVars, taskVars>>
    \/ FinalFlush(QuietOracle(speaker_registry))
          /\ UNCHANGED <<lockVars, workerVars, modelVars, fileVars, apiVars, taskVars>>

SpecDuration == Init /\ [][DurationNext]_vars

\* ------------------------------------------------------------------------
\* The session specification: the application is started with or without
\* the global lock, meetings are created, stopped and read over HTTP,
\* clients stream chunks of 0.3 s that the VAD closes as one segment, stop
\* or disconnect, and the worker processes what is queued.
\* ------------------------------------------------------------------------
SessionChunkBytes == 300 * BYTES_PER_MS

SessionOracle(reg) ==
    [text |-> TRUE, ptext |-> FALSE, emb |-> "ok",
     scores |-> [i \in 1..Len(reg) |-> 45], gender |-> "M", fail |-> {}]

SessionNext ==
    \/ EnableGlobalLock
          /\ UNCHANGED <<streamVars, lockVars, workerVars, modelVars, fileVars, taskVars>>
    \/ LoadModels("ok")
          /\ UNCHANGED <<streamVars, lockVars, workerVars, fileVars, apiVars, taskVars>>
    \/ \E m \in Sessions :
          /\ CreateMeeting(m)
          /\ UNCHANGED <<streamVars, lockVars, workerVars, modelVars, fileVars, taskVars>>
    \/ \E m \in Sessions :
          /\ GetMeeting(m)
          /\ UNCHANGED <<streamVars, lockVars, workerVars, modelVars, fileVars, taskVars>>
    \/ \E m \in Sessions :
          /\ StopMeeting(m)
          /\ UNCHANGED <<streamVars, lockVars, workerVars, modelVars, fileVars, taskVars>>
    \/ \E m \in Sessions :
          Handshake(m) /\ UNCHANGED <<streamVars, lockVars, modelVars, fileVars, taskVars>>
    \/ \E m \in Sessions :
          /\ SendChunk(m, SessionChunkBytes, MaxSessionEnqueues)
          /\ UNCHANGED <<streamVars, lockVars, modelVars, fileVars, taskVars>>
    \/ \E m \in Sessions :
          /\ ClientStop(m, MaxSessionEnqueues)
          /\ UNCHANGED <<streamVars, lockVars, modelVars, fileVars, taskVars>>
    \/ \E m \in Sessions :
          WaitOver(m) /\ UNCHANGED <<streamVars, lockVars, modelVars, fileVars, taskVars>>
    \/ \E m \in Sessions :
          /\ Disconnect(m, MaxSessionEnqueues)
          /\ UNCHANGED <<streamVars, lockVars, modelVars, fileVars, taskVars>>
    \/ \E m \in Sessions :
          ReceiveFails(m) /\ UNCHANGED <<streamVars, lockVars, modelVars, fileVars, taskVars>>
    \/ WorkerGet(MaxSessionEnqueues + 1)
          /\ UNCHANGED <<lockVars, modelVars, fileVars, apiVars, taskVars>>
    \/ /\ pc = "vad"
       /\ ~cur.vad_returned
       /\ VadSegment(WholeBufferPair(cache[cur.session_id]),
                     SessionOracle(speaker_registry), MaxSessionEnqueues)
       /\ UNCHANGED <<lockVars, workerVars, modelVars, fileVars, apiVars, taskVars>>
    \/ Guards(SessionOracle(speaker_registry), FALSE)
          /\ UNCHANGED <<lockVars, workerVars, modelVars, fileVars, apiVars, taskVars>>
    \/ FinalFlush(SessionOracle(speaker_registry))
          /\ UNCHANGED <<lockVars, workerVars, modelVars, fileVars, apiVars, taskVars>>
    \/ WorkerResumeSession(MaxSessionEnqueues + 1)
          /\ UNCHANGED <<lockVars, modelVars, fileVars, taskVars>>
    \/ SendResultsFinal /\ UNCHANGED <<streamVars, lockVars, modelVars, fileVars, taskVars>>
    \/ WorkerCallbackDoneSession(MaxSessionEnqueues + 1)
          /\ UNCHANGED <<lockVars, modelVars, fileVars, taskVars>>

SpecSession == Init /\ [][SessionNext]_vars

\* ------------------------------------------------------------------------
\* The stop specification: clients of two meetings stream chunks of 0.3 s
\* and send "stop"; the wait for the final processing ends with the event
\* or with the timeout; POST stop may be served at any time.
\* ------------------------------------------------------------------------
StopNext ==
    \/ LoadModels("ok")
          /\ UNCHANGED <<streamVars, lockVars, workerVars, fileVars, apiVars, taskVars>>
    \/ \E m \in Sessions :
          /\ CreateMeeting(m)
          /\ UNCHANGED <<streamVars, lockVars, workerVars, modelVars, fileVars, taskVars>>
    \/ \E m \in Sessions :
          /\ StopMeeting(m)
          /\ UNCHANGED <<streamVars, lockVars, workerVars, modelVars, fileVars, taskVars>>
    \/ \E m \in Sessions :
          Handshake(m) /\ UNCHANGED <<streamVars, lockVars, modelVars, fileVars, taskVars>>
    \/ \E m \in Sessions :
          /\ SendChunk(m, SessionChunkBytes, MaxStopEnqueues)
          /\ UNCHANGED <<streamVars, lockVars, modelVars, fileVars, taskVars>>
    \/ \E m \in Sessions :
          /\ ClientStop(m, MaxStopEnqueues)
          /\ UNCHANGED <<streamVars, lockVars, modelVars, fileVars, taskVars>>
    \/ \E m \in Sessions :
          WaitOver(m) /\ UNCHANGED <<streamVars, lockVars, modelVars, fileVars, taskVars>>
    \/ WorkerGet(MaxStopEnqueues + 1)
          /\ UNCHANGED <<lockVars, modelVars, fileVars, apiVars, taskVars>>
    \/ /\ pc = "vad"
       /\ ~cur.vad_returned
       /\ VadSegment(WholeBufferPair(cache[cur.session_id]),
                     SessionOracle(speaker_registry), MaxStopEnqueues)
       /\ UNCHANGED <<lockVars, workerVars, modelVars, fileVars, apiVars, taskVars>>
    \/ Guards(SessionOracle(speaker_registry), FALSE)
          /\ UNCHANGED <<lockVars, workerVars, modelVars, fileVars, apiVars, taskVars>>
    \/ FinalFlush(SessionOracle(speaker_registry))
          /\ UNCHANGED <<lockVars, workerVars, modelVars, fileVars, apiVars, taskVars>>
    \/ WorkerResumeSession(MaxStopEnqueues + 1)
          /\ UNCHANGED <<lockVars, modelVars, fileVars, taskVars>>
    \/ SendResultsFinal /\ UNCHANGED <<streamVars, lockVars, modelVars, fileVars, taskVars>>
    \/ WorkerCallbackDoneSession(MaxStopEnqueues + 1)
          /\ UNCHANGED <<lockVars, modelVars, fileVars, taskVars>>

SpecStop == Init /\ [][StopNext]_vars

\* ------------------------------------------------------------------------
\* The partial specification: the client of one meeting streams chunks of
\* 0.6 s or 8.4 s and sends "stop"; the VAD opens a span at the first
\* buffered byte, closes the whole buffer, or reports nothing; the ASR
\* returns a text for every call, partial or not.
\* ------------------------------------------------------------------------
PartialChunkLens == {600 * BYTES_PER_MS, 8400 * BYTES_PER_MS}

\* The VAD pair that opens a span at the first byte of the buffer of c
OpenPair(c) == <<c.buffer_offset_bytes \div BYTES_PER_MS, -1>>

PartialVadPairs(c) == {OpenPair(c), WholeBufferPair(c)}

PartialOracle(reg) ==
    [text |-> TRUE, ptext |-> TRUE, emb |-> "ok",
     scores |-> [i \in 1..Len(reg) |-> 45], gender |-> "M", fail |-> {}]

PartialNext ==
    \/ LoadModels("ok")
          /\ UNCHANGED <<streamVars, lockVars, workerVars, fileVars, apiVars, taskVars>>
    \/ \E m \in StreamSessions :
          /\ CreateMeeting(m)
          /\ UNCHANGED <<streamVars, lockVars, workerVars, modelVars, fileVars, taskVars>>
    \/ \E m \in StreamSessions :
          Handshake(m) /\ UNCHANGED <<streamVars, lockVars, modelVars, fileVars, taskVars>>
    \/ \E m \in StreamSessions, chunk_len \in PartialChunkLens :
          /\ SendChunk(m, chunk_len, MaxPartialEnqueues)
          /\ UNCHANGED <<streamVars, lockVars, modelVars, fileVars, taskVars>>
    \/ \E m \in StreamSessions :
          /\ ClientStop(m, MaxPartialEnqueues)
          /\ UNCHANGED <<streamVars, lockVars, modelVars, fileVars, taskVars>>
    \/ \E m \in StreamSessions :
          WaitOver(m) /\ UNCHANGED <<streamVars, lockVars, modelVars, fileVars, taskVars>>
    \/ WorkerGet(MaxPartialEnqueues + 1)
          /\ UNCHANGED <<lockVars, modelVars, fileVars, apiVars, taskVars>>
    \/ /\ pc = "vad"
       /\ ~cur.vad_returned
       /\ \E pair \in PartialVadPairs(cache[cur.session_id]) :
             VadSegment(pair, PartialOracle(speaker_registry),
                        MaxPartialEnqueues)
       /\ UNCHANGED <<lockVars, workerVars, modelVars, fileVars, apiVars, taskVars>>
    \/ Guards(PartialOracle(speaker_registry), FALSE)
          /\ UNCHANGED <<lockVars, workerVars, modelVars, fileVars, apiVars, taskVars>>
    \/ FinalFlush(PartialOracle(speaker_registry))
          /\ UNCHANGED <<lockVars, workerVars, modelVars, fileVars, apiVars, taskVars>>
    \/ WorkerResumeSession(MaxPartialEnqueues + 1)
          /\ UNCHANGED <<lockVars, modelVars, fileVars, taskVars>>
    \/ SendResultsFinal /\ UNCHANGED <<streamVars, lockVars, modelVars, fileVars, taskVars>>
    \/ WorkerCallbackDoneSession(MaxPartialEnqueues + 1)
          /\ UNCHANGED <<lockVars, modelVars, fileVars, taskVars>>

SpecPartial == Init /\ [][PartialNext]_vars

\* ------------------------------------------------------------------------
\* The specification of a client whose binary messages do not all hold a
\* whole number of 16-bit samples: a chunk of 8.4 s plus one byte, chunks
\* of 31 bytes and of 0.3 s, and the final call; the VAD, when it runs,
\* opens a span at 0 ms or closes the one that is open at 300 ms.
\* ------------------------------------------------------------------------
OddChunkInputs ==
    {<<8400 * BYTES_PER_MS + 1, FALSE>>, <<BYTES_PER_MS - 1, FALSE>>,
     <<300 * BYTES_PER_MS, FALSE>>, <<0, TRUE>>}

OddVadPairs == {<<0, -1>>, <<-1, 300>>}

OddNext ==
    \/ LoadModels("ok") /\ UNCHANGED <<streamVars, lockVars, workerVars, fileVars, apiVars, taskVars>>
    \/ \E s \in StreamSessions, in \in OddChunkInputs, dt \in ClockSteps :
          /\ AppendChunk(s, in[1], in[2], dt, MaxOddChunks)
          /\ UNCHANGED <<lockVars, workerVars, modelVars, fileVars, apiVars, taskVars>>
    \/ \E pair \in OddVadPairs, o \in StreamOracles(speaker_registry) :
          /\ VadSegment(pair, o, MaxOddVadPairs)
          /\ UNCHANGED <<lockVars, workerVars, modelVars, fileVars, apiVars, taskVars>>
    \/ \E o \in StreamOracles(speaker_registry) :
          Guards(o, FALSE) /\ UNCHANGED <<lockVars, workerVars, modelVars, fileVars, apiVars, taskVars>>
    \/ \E o \in StreamOracles(speaker_registry) :
          FinalFlush(o) /\ UNCHANGED <<lockVars, workerVars, modelVars, fileVars, apiVars, taskVars>>

SpecOdd == Init /\ [][OddNext]_vars

\* ------------------------------------------------------------------------
\* The robustness specification: the models are loaded; the connection of
\* one session registers a callback that returns or raises, enqueues
\* chunks of 0.3 s, chunks of 0.3 s plus one byte (on which _process_stream
\* raises) and the final marker; stop_worker may be called at any time.
\* ------------------------------------------------------------------------
RobustChunkInputs ==
    {<<300 * BYTES_PER_MS, FALSE>>, <<300 * BYTES_PER_MS + 1, FALSE>>,
     <<0, TRUE>>}

RobustNext ==
    \/ LoadModels("ok") /\ UNCHANGED <<streamVars, lockVars, workerVars, fileVars, apiVars, taskVars>>
    \/ \E s \in StreamSessions :
          /\ asr_model = "loaded"
          /\ Connect(s) /\ UNCHANGED <<streamVars, lockVars, modelVars, fileVars, apiVars, taskVars>>
    \/ \E s \in StreamSessions, in \in RobustChunkInputs :
          /\ asr_model = "loaded"
          /\ EnqueueAudio(s, in[1], in[2], MaxRobustEnqueues)
          /\ UNCHANGED <<streamVars, lockVars, modelVars, fileVars, apiVars, taskVars>>
    \/ WorkerGet(MaxRobustEnqueues + 1) /\ UNCHANGED <<lockVars, modelVars, fileVars, apiVars, taskVars>>
    \/ \E o \in WorkerOracles(speaker_registry) :
          Guards(o, FALSE) /\ UNCHANGED <<lockVars, workerVars, modelVars, fileVars, apiVars, taskVars>>
    \/ \E o \in WorkerOracles(speaker_registry) :
          FinalFlush(o) /\ UNCHANGED <<lockVars, workerVars, modelVars, fileVars, apiVars, taskVars>>
    \/ WorkerResume(MaxRobustEnqueues + 1) /\ UNCHANGED <<lockVars, modelVars, fileVars, apiVars, taskVars>>
    \/ WorkerCallbackDone(MaxRobustEnqueues + 1) /\ UNCHANGED <<lockVars, modelVars, fileVars, apiVars, taskVars>>
    \/ WorkerCallbackRaised(MaxRobustEnqueues + 1) /\ UNCHANGED <<lockVars, modelVars, fileVars, apiVars, taskVars>>
    \/ WorkerCancelled /\ UNCHANGED <<streamVars, lockVars, modelVars, fileVars, apiVars, taskVars>>
    \/ StopWorker /\ UNCHANGED <<streamVars, lockVars, modelVars, fileVars, apiVars, taskVars>>
    \/ StopCancel /\ UNCHANGED <<streamVars, lockVars, modelVars, fileVars, apiVars, taskVars>>
    \/ StopFinish /\ UNCHANGED <<streamVars, lockVars, modelVars, fileVars, apiVars, taskVars>>

SpecRobust == Init /\ [][RobustNext]_vars

\* ------------------------------------------------------------------------
\* Properties of the stream specification
\* ------------------------------------------------------------------------

\* The last call of _process_stream has returned and was the is_final one.
StreamDone == pc = "idle" /\ nchunks > 0 /\ cur.is_final

\* The VAD behaved well during the session and closed every span it opened.
WellBehaved(s) == hist[s].vad_sane /\ ~hist[s].vad_open

\* C1 (offset conservation): after every processed chunk the
\* buffer_offset_bytes of a session equals the number of bytes removed from
\* the front of its buffer, and the buffer length equals the bytes appended
\* minus the bytes removed, whatever the VAD reported.
C1_OffsetConservation ==
    \A s \in DOMAIN cache :
        pc = "idle" =>
            /\ cache[s].buffer_offset_bytes = hist[s].removed
            /\ cache[s].audio_buffer = hist[s].appended - hist[s].removed

C3_ToleranceClamp ==
    [][ LET s == cur.session_id
            c == cache[s]
            pair == cur'.vad_pair
            stored == IF pair[1] # -1 THEN pair[1] ELSE c.current_start_ms
            over == pair[2] * BYTES_PER_MS - c.buffer_offset_bytes
                      - c.audio_buffer
        IN  (/\ pc = "vad" /\ nvad' = nvad + 1
             /\ pair[2] # -1 /\ stored # -1
             /\ over > 0 /\ over < 3200)
            => /\ Len(calls') = Len(calls) + 1
               /\ calls'[Len(calls')].kind = "vad"
               /\ calls'[Len(calls')].hi = hist[s].appended
               /\ calls'[Len(calls')].rhi = hist[s].appended
               /\ cache'[s].audio_buffer = 0
               /\ cache'[s].buffer_offset_bytes
                     = c.buffer_offset_bytes + c.audio_buffer ]_vars

\* 9600 bytes buffered and a close at 301 ms (32 bytes beyond the buffer):
\* one segment was finalized and the offset is 9600.
C3_Witness ==
    /\ pc = "vad" /\ nvad = 1 /\ cur.vad_pair = <<0, 301>>
    /\ hist[cur.session_id].appended = 9600
    /\ Len(calls) = 1 /\ calls[1].kind = "vad"
    /\ calls[1].lo = 0 /\ calls[1].hi = 9600
    /\ cache[cur.session_id].audio_buffer = 0
    /\ cache[cur.session_id].buffer_offset_bytes = 9600

\* C4 (forced split): when a span is open and longer than 8000 ms and the
\* VAD has never reported an end, exactly one non-partial segment is
\* finalized, it consists of the whole buffered open span, the buffer is
\* empty afterwards and the session is Open again with current_start_ms
\* equal to the timestamp of the forced end (the end of the buffer).
C4_ForcedSplit ==
    [][ LET s == cur.session_id
            c == cache[s]
            buffer_end == c.buffer_offset_bytes + c.audio_buffer
            span_start == Max(c.current_start_ms * BYTES_PER_MS,
                              c.buffer_offset_bytes)
        IN  (/\ pc = "vad" /\ pc' = "final"
             /\ ~hist[s].vad_end_seen
             /\ c.current_start_ms # -1
             /\ buffer_end - c.current_start_ms * BYTES_PER_MS
                   > 8000 * BYTES_PER_MS)
            => /\ Len(calls') = Len(calls) + 1
               /\ calls'[Len(calls')].kind = "forced"
               /\ calls'[Len(calls')].lo = span_start
               /\ calls'[Len(calls')].hi = buffer_end
               /\ hist[s].appended = buffer_end
               /\ cache'[s].audio_buffer = 0
               /\ cache'[s].buffer_offset_bytes = buffer_end
               /\ cache'[s].current_start_ms * BYTES_PER_MS = buffer_end
               /\ \A i \in 1..Len(results') :
                     i > Len(results) /\ results'[i].kind = "forced"
                     => /\ results'[i].is_partial = "false"
                        /\ results'[i].timestamp_ms * BYTES_PER_MS = buffer_end
                        /\ results'[i].vad_segment[2] * BYTES_PER_MS = buffer_end
       ]_vars

\* 11 s of audio with a span opened at 0 and never closed: the span was
\* split and the next one starts at 11000 ms.
C4_Witness ==
    /\ pc = "final" /\ ~hist[cur.session_id].vad_end_seen
    /\ Len(calls) > 0 /\ calls[Len(calls)].kind = "forced"
    /\ calls[Len(calls)].lo = 0 /\ calls[Len(calls)].hi = 352000
    /\ cache[cur.session_id].audio_buffer = 0
    /\ cache[cur.session_id].current_start_ms = 11000

\* C10 as stated (final flush): when the is_final chunk finds bytes in the
\* buffer they are run through ASR as one last non-partial segment,
\* whatever their length and whether the session is Idle or Open.
C10_FinalFlushRunsAsr ==
    [][ (/\ pc = "final" /\ pc' = "idle" /\ cur.is_final
         /\ cache[cur.session_id].audio_buffer > 0)
        => /\ Len(calls') = Len(calls) + 1
           /\ calls'[Len(calls')].kind = "final"
           /\ calls'[Len(calls')].lo = hist[cur.session_id].removed
           /\ calls'[Len(calls')].hi = hist[cur.session_id].appended
           /\ calls'[Len(calls')].asr_run ]_vars

\* C10 amended: when the is_final chunk finds bytes in the buffer they are
\* handed to the finalizer as one last non-partial segment, whether the
\* session is Idle or Open; the finalizer runs ASR on them only if they are
\* at least 0.3 s (9600 bytes) long and drops a shorter tail.
C10_FinalFlushHandsTail ==
    [][ (/\ pc = "final" /\ pc' = "idle" /\ cur.is_final
         /\ cache[cur.session_id].audio_buffer > 0)
        => /\ Len(calls') = Len(calls) + 1
           /\ calls'[Len(calls')].kind = "final"
           /\ calls'[Len(calls')].lo = hist[cur.session_id].removed
           /\ calls'[Len(calls')].hi = hist[cur.session_id].appended
           /\ calls'[Len(calls')].asr_run
                 = (cache[cur.session_id].audio_buffer >= 9600)
           /\ \A i \in 1..Len(results') :
                 i > Len(results) => results'[i].is_partial = "false" ]_vars

\* A tail of 3200 bytes was flushed from an open span and dropped by the
\* finalizer.
C10_Witness ==
    /\ StreamDone
    /\ Len(calls) > 0 /\ calls[Len(calls)].kind = "final"
    /\ calls[Len(calls)].seg_len = 3200
    /\ ~calls[Len(calls)].asr_run
    /\ hist[cur.session_id].vad_open

\* ------------------------------------------------------------------------
\* Properties of the throttle specification
\* ------------------------------------------------------------------------

\* C5 (partial throttle rate): for one session whose span stays open with
\* no closes, any two partial emissions are more than 500 ms apart on the
\* clock of the throttle, so that a fifth emission comes more than 2000 ms
\* after the first (at most 4 in any 2000 ms), and each partial result is
\* marked is_partial = true.
C5_PartialThrottle ==
    /\ \A i, j \in 1..Len(partial_log) :
          i < j => partial_log[j] - partial_log[i] > 500
    /\ \A i, j \in 1..Len(partial_log) :
          j - i >= 4 => partial_log[j] - partial_log[i] > 2000
    /\ \A i \in 1..Len(results) :
          results[i].kind = "partial" => results[i].is_partial = "true"
    /\ \A i \in 1..Len(results) :
          results[i].kind = "partial"
          => /\ Len(partial_log) > 0
             /\ partial_log[Len(partial_log)] = results[i].timestamp_ms

\* Five partial results in a row, each 501 ms after the one before.
C5_Witness ==
    /\ Len(partial_log) = 5
    /\ partial_log[5] - partial_log[1] = 2004
    /\ pc = "final"
    /\ \E i \in 1..Len(results) : results[i].kind = "partial"
    /\ ~hist[cur.session_id].vad_end_seen

\* ------------------------------------------------------------------------
\* Properties of the speaker specification
\* ------------------------------------------------------------------------

\* C6 (speaker continuity): when a segment is resolved with
\* previous_speaker being the label the pipeline stored in last_speaker,
\* the embedding is available, and the profile of that previous speaker
\* scores above the threshold and within 0.1 of the best score, which
\* another registered speaker has, then the label returned is the previous
\* speaker's and the previous speaker's profile is the one updated.
C6_SpeakerContinuity ==
    [][ \A p \in 1..Len(speaker_registry) :
          LET s == cur.session_id
              call == calls'[Len(calls')]
              sc == call.oracle.scores
              prev == FormatLabel(SpeakerKey(p), speaker_registry[p].gender)
          IN  (/\ pc = "vad" /\ nvad' = nvad + 1
               /\ Len(calls') = Len(calls) + 1
               /\ call.asr_run /\ call.seg_len >= 16000
               /\ call.oracle.emb = "ok"
               /\ cache[s].last_speaker = prev
               /\ call.previous_speaker = prev
               /\ sc[p] > 35
               /\ \E q \in 1..Len(speaker_registry) :
                     /\ q # p /\ sc[q] > sc[p] /\ sc[q] - sc[p] < 10
                     /\ \A k \in 1..Len(speaker_registry) : sc[k] <= sc[q])
              => /\ call.speaker_id = prev
                 /\ speaker_registry'
                       = [speaker_registry EXCEPT ![p].count = @ + 1]
      ]_vars

\* ------------------------------------------------------------------------
\* Properties of the gate specification
\* ------------------------------------------------------------------------

\* What the last call on the gate did, seen from the state before it.
LockStepOK ==
    LET e == lock_log'[Len(lock_log')]
    IN  Len(lock_log') = Len(lock_log) + 1 =>
          /\ e.op = "try_acquire" =>
                /\ e.ret = ~is_busy
                /\ is_busy'
                /\ current_owner' = IF is_busy THEN current_owner ELSE e.owner_id
          /\ (e.op = "release" /\ is_busy /\ e.owner_id # current_owner) =>
                /\ is_busy'
                /\ current_owner' = current_owner

\* C7 (resource gate mutual exclusion): try_acquire returns true exactly
\* when the gate is free and false, leaving the holder as it is, when the
\* gate is held; at most one owner holds the gate at a time; release by an
\* owner that is not the holder leaves the gate held by the holder.
C7_GateMutualExclusion ==
    /\ [](Cardinality(holders) <= 1)
    /\ [](is_busy => holders = {current_owner})
    /\ [][LockStepOK]_vars

\* s1 holds the gate, s2 was refused and its release changed nothing.
C7_Witness ==
    /\ lock_log = <<[op |-> "try_acquire", owner_id |-> "s1", ret |-> TRUE],
                    [op |-> "try_acquire", owner_id |-> "s2", ret |-> FALSE],
                    [op |-> "release", owner_id |-> "s2", ret |-> FALSE]>>
    /\ is_busy /\ current_owner = "s1" /\ holders = {"s1"}

\* ------------------------------------------------------------------------
\* Properties of the worker specification
\* ------------------------------------------------------------------------

\* The item numbers of session s in a history of <<session, number>> pairs
RECURSIVE ItemsOf(_, _)
ItemsOf(log, s) ==
    IF log = << >> THEN << >>
    ELSE IF Head(log)[1] = s THEN <<Head(log)[2]>> \o ItemsOf(Tail(log), s)
    ELSE ItemsOf(Tail(log), s)

C9_CancelFindsQueueDrained ==
    [][ (cancel_requested' /\ ~cancel_requested)
        => /\ queue = << >>
           /\ unfinished = 0
           /\ wpc \notin {"processing", "callback"} ]_vars

\* ------------------------------------------------------------------------
\* Session teardown
\* ------------------------------------------------------------------------

\* C11 (session teardown): once a call of _process_stream with
\* is_final = true has returned, whatever the buffer held at that moment,
\* the engine cache has no entry for that session.
C11_SessionTeardown ==
    StreamDone => cur.session_id \notin DOMAIN cache

\* ------------------------------------------------------------------------
\* Partial and final results
\* ------------------------------------------------------------------------

\* C12 (partial/final ordering): a partial result is computed only while
\* the session is Open, over bytes of the open span that are still in the
\* buffer: none of them belongs to a segment that was handed to the
\* finalizer before (in this call or an earlier one of the session), so no
\* partial result follows the non-partial result of a segment containing
\* its bytes; the non-partial results that precede it in the same result
\* list are those of the VAD closes.
C12_PartialAfterFinal ==
    [][ \A i \in 1..Len(results') :
          LET s == cur.session_id
              r == results'[i]
          IN  (/\ pc = "vad" /\ pc' = "final"
               /\ i > Len(results) /\ r.kind = "partial")
              => /\ BacklogGuard(cache[s]).current_start_ms # -1
                 /\ r.lo >= hist[s].last_hi
                 /\ r.lo >= hist[s].removed
                 /\ r.lo < r.hi
                 /\ r.hi = hist[s].appended
                 /\ \A j \in 1..(i - 1) : results'[j].kind = "vad" ]_vars

\* A call in which the VAD closed a segment that produced a result and
\* opened the next span, whose partial result follows in the same list.
C12_Witness ==
    /\ pc = "final" /\ Len(results) = 2
    /\ results[1].kind = "vad" /\ results[2].kind = "partial"
    /\ results[2].lo = hist[cur.session_id].last_hi
    /\ hist[cur.session_id].last_hi > 0

\* ------------------------------------------------------------------------
\* Failures
\* ------------------------------------------------------------------------

\* C13 (resolver failure semantics): whenever recognize_speaker is called
\* for a segment and the speaker-embedding model is not loaded, or it is
\* consulted and returns no embedding or throws, the call returns the
\* unknown label, does not raise to its caller and leaves the speaker
\* registry as it was.
C13_ResolverFailure ==
    [][ LET call == calls'[Len(calls')]
        IN  (/\ Len(calls') = Len(calls) + 1
             /\ call.seg_len >= MIN_SEGMENT_BYTES
             /\ \/ speaker_model # "loaded"
                \/ /\ call.seg_len >= MIN_SPEAKER_BYTES
                   /\ call.oracle.emb \in {"none", "raise"})
            => /\ ~call.raised
               /\ call.speaker_id = Unknown
               /\ speaker_registry' = speaker_registry ]_vars

\* The buffer bookkeeping of two session caches is the same.
SameBuffer(c1, c2) ==
    /\ c1.audio_buffer = c2.audio_buffer
    /\ c1.buffer_offset_bytes = c2.buffer_offset_bytes
    /\ c1.current_start_ms = c2.current_start_ms

\* C14 (transient oracle failure): when the VAD call of a chunk raises, the
\* call goes on as with no VAD pairs; when noise reduction, ASR or
\* punctuation raise in a block of _process_stream, the call does not
\* raise and goes on to its next block, and the session's buffer,
\* buffer_offset_bytes and current_start_ms after the block are those the
\* block leaves when the oracles return an empty result.
C14_OracleFailureIsEmptyResult ==
    [][ LET s == cur.session_id
            quiet == QuietOracle(speaker_registry)
        IN  /\ (pc = "vad" /\ cur.vad_raised) => (nvad' = nvad /\ pc' = "final")
            /\ (pc = "vad" /\ cur'.vad_raised /\ ~cur.vad_raised)
                  => (pc' = "vad" /\ cache' = cache /\ ~cur'.raised)
            /\ (pc = "vad" /\ nvad' = nvad + 1 /\ cur'.fail # {})
                  => /\ pc' = "vad" /\ ~cur'.raised
                     /\ SameBuffer(cache'[s],
                            VadSegmentStep(Running(s), cur'.vad_pair, quiet).c)
            /\ (pc = "vad" /\ nvad' = nvad /\ pc' # "vad" /\ cur'.fail # {})
                  => /\ pc' = "final" /\ ~cur'.raised
                     /\ SameBuffer(cache'[s], GuardsStep(Running(s), now, quiet).c)
            /\ (pc = "final" /\ pc' = "idle" /\ cur'.fail # {})
                  => /\ ~cur'.raised
                     /\ s \notin DOMAIN cache' ]_vars

\* The ASR call of a segment closed by the VAD raised although there was
\* a text to recognise: the segment was consumed, gave no result, and the
\* call goes on.
C14_Witness ==
    /\ pc = "vad" /\ nvad = 1 /\ ~cur.raised
    /\ "asr" \in cur.fail
    /\ Len(calls) = 1 /\ calls[1].oracle.text /\ calls[1].n_results = 0
    /\ hist[cur.session_id].handed = 9600
    /\ cache[cur.session_id].buffer_offset_bytes = 9600
    /\ cache[cur.session_id].audio_buffer = 0

\* C15 (model-not-loaded is surfaced): when the worker has finished with a
\* chunk that _process_stream refused because the models are not loaded,
\* and the submitting session has its result sink registered, the sink has
\* been notified for that chunk (enqueue_audio itself never fails), so that
\* a final chunk leads to a completion notification.
C15_NotLoadedReachesSession ==
    [][ (/\ wpc = "processing" /\ wpc' # "processing"
         /\ pc = "idle" /\ cur.raised /\ asr_model = "None"
         /\ item.session_id \in callbacks)
        => /\ Len(delivered') = Len(delivered) + 1
           /\ delivered'[Len(delivered')] = <<item.session_id, item.n>> ]_vars

\* ------------------------------------------------------------------------
\* Properties of the registry specification
\* ------------------------------------------------------------------------

\* C16 (single writer on the speaker registry): in every reachable state
\* at most one thread is executing recognize_speaker, the read-modify-write
\* of the speaker registry, also when a re-transcription runs while a
\* stream is being processed.
C16_SingleRegistryWriter == Cardinality(in_registry) <= 1

\* ------------------------------------------------------------------------
\* Properties of the backlog specification
\* ------------------------------------------------------------------------

\* C17 (bounded backlog): whatever the VAD reports (nothing, a start it
\* never closes, a new start with every chunk), after each processed chunk
\* of at most BacklogChunkBytes bytes the audio buffer holds at most the
\* backlog threshold plus the maximum segment duration plus one chunk.
C17_BoundedBacklog ==
    (pc = "idle" /\ nchunks > 0 /\ cur.session_id \in DOMAIN cache)
        => cache[cur.session_id].audio_buffer
              <= BACKLOG_BYTES + MAX_SEGMENT_DURATION_MS * BYTES_PER_MS
                 + BacklogChunkBytes

\* ------------------------------------------------------------------------
\* Properties of the session specification
\* ------------------------------------------------------------------------

\* C18 (single concurrent recording): with the global lock enabled, a
\* request to create a meeting served while a client is connected and
\* streaming is answered 503, and no second session starts.
C18_SingleRecording ==
    /\ \A i \in 1..Len(responses) :
          (responses[i].op = "create" /\ responses[i].lock_enabled
             /\ responses[i].recording) => responses[i].code = 503
    /\ enable_global_lock
          => Cardinality({s \in Sessions : ws[s] = "streaming"}) <= 1

\* C19 (stop, then get): a GET of a meeting that was stopped by POST stop
\* and never had a stream attached reports the status "finished".
C19_StoppedMeetingIsFinished ==
    \A i, j \in 1..Len(responses) :
        (/\ i < j
         /\ responses[i].op = "stop" /\ responses[i].code = 200
         /\ responses[j].op = "get" /\ responses[j].id = responses[i].id
         /\ ~responses[j].streamed)
            => responses[j].status = "finished"

\* The worker waits on an empty queue and no call is running
WorkerQuiet == wpc = "get_wait" /\ queue = << >> /\ pc = "idle"

\* C20 (results survive a disconnect): once the worker has processed all
\* that a disconnected session left in the queue, every non-partial result
\* produced for the session is in the transcript of the meeting and the
\* status of the meeting is "finished".
C20_ResultsSurviveDisconnect ==
    \A m \in Sessions :
        (ws[m] = "disconnected" /\ WorkerQuiet)
            => /\ transcripts[m] = produced[m]
               /\ meetings[m] = "finished"

\* ------------------------------------------------------------------------
\* Properties of the stop specification
\* ------------------------------------------------------------------------

DeferredClose ==
    /\ pc = "vad"
    /\ nvad' = nvad + 1
    /\ cache[cur.session_id].current_start_ms # -1
    /\ cur'.vad_pair[1] = -1
    /\ cur'.vad_pair[2] # -1
    /\ cur'.vad_pair[2] * BYTES_PER_MS
          - cache[cur.session_id].buffer_offset_bytes
          - cache[cur.session_id].audio_buffer >= TOLERANCE_BYTES

\* C22 (deferral leaves the state unchanged): a VAD close of an open span
\* whose end byte exceeds the buffered length by the tolerance or more
\* finalizes and consumes nothing, and the session keeps its
\* current_start_ms, its buffer and its buffer_offset_bytes.
C22_DeferralKeepsState ==
    [][DeferredClose => /\ calls' = calls
                        /\ cache'[cur.session_id] = cache[cur.session_id]]_vars

\* C23 (a deferred close is eventually honoured): once a call has
\* returned and the chunks have delivered the bytes up to the end of a
\* close that was deferred, the span of that close has been handed to the
\* finalizer as a non-partial segment.
C23_DeferredCloseHonoured ==
    \A s \in DOMAIN cache :
        (/\ pc = "idle"
         /\ hist[s].deferred # NoPair
         /\ hist[s].appended >= hist[s].deferred[2] * BYTES_PER_MS)
            => hist[s].honoured

\* The VAD step that is taken reports an end for an open span, and that
\* end lies before the first byte of the buffer.
StaleClose ==
    /\ pc = "vad"
    /\ nvad' = nvad + 1
    /\ cur'.vad_pair[2] # -1
    /\ (cur'.vad_pair[1] # -1
          \/ cache[cur.session_id].current_start_ms # -1)
    /\ cur'.vad_pair[2] * BYTES_PER_MS
          < cache[cur.session_id].buffer_offset_bytes

\* C24 (closes that refer to discarded bytes are clamped): a VAD close of
\* an open span whose end lies before buffer_offset_bytes raises nothing,
\* puts no byte after that end into a segment, removes no byte, and does
\* not decrease buffer_offset_bytes.
C24_StaleCloseClamped ==
    [][StaleClose =>
         LET s == cur.session_id
         IN  /\ ~cur'.raised
             /\ cache'[s].audio_buffer = cache[s].audio_buffer
             /\ cache'[s].buffer_offset_bytes >= cache[s].buffer_offset_bytes
             /\ \A i \in (Len(calls) + 1)..Len(calls') :
                    \/ calls'[i].seg_len = 0
                    \/ calls'[i].hi <= cur'.vad_pair[2] * BYTES_PER_MS]_vars

\* ------------------------------------------------------------------------
\* Properties of the guards
\* ------------------------------------------------------------------------

\* The guards of the running call have just made a forced split
JustForcedSplit ==
    /\ pc = "final"
    /\ Len(calls) > 0
    /\ calls[Len(calls)].kind = "forced"

\* C25 (a forced split leaves no gap and no overlap): immediately after a
\* forced split the span that was re-opened starts at the first byte that
\* was not consumed: current_start_ms * BYTES_PER_MS = buffer_offset_bytes.
C25_ForcedSplitNoGap ==
    JustForcedSplit =>
        cache[cur.session_id].current_start_ms * BYTES_PER_MS
            = cache[cur.session_id].buffer_offset_bytes

\* A forced split of a span that the VAD had opened after the start of
\* the buffer
C25_Witness ==
    /\ JustForcedSplit
    /\ calls[Len(calls)].lo > 0
    /\ calls[Len(calls)].seg_len > MAX_SEGMENT_DURATION_MS * BYTES_PER_MS
    /\ cache[cur.session_id].audio_buffer = 0

\* The step that is taken runs the guards of the running call
GuardsRun == pc = "vad" /\ pc' = "final"

\* The step that is taken makes a forced split
ForcedSplitNow ==
    /\ Len(calls') > Len(calls)
    /\ calls'[Len(calls')].kind = "forced"

\* C26 (backlog guard): when the guards have run, an Idle session holds
\* at most BACKLOG_BYTES buffered bytes; a session that was Idle with more
\* than that is Open afterwards, with current_start_ms the timestamp of
\* the first byte of the buffer (unless the max-duration guard has split
\* the span at once).
C26_BacklogGuard ==
    [][GuardsRun =>
         LET s == cur.session_id
         IN  /\ cache'[s].current_start_ms = -1
                   => cache'[s].audio_buffer <= BACKLOG_BYTES
             /\ (cache[s].current_start_ms = -1
                   /\ cache[s].audio_buffer > BACKLOG_BYTES)
                   => /\ cache'[s].current_start_ms # -1
                      /\ ~ForcedSplitNow
                            => cache'[s].current_start_ms
                                 = cache[s].buffer_offset_bytes
                                     \div BYTES_PER_MS]_vars

\* The backlog guard has opened a span in a buffer that does not start at
\* the beginning of the stream: the VAD has closed one span and reported
\* no other start.
C26_Witness ==
    /\ pc = "final"
    /\ cur.vad_pair[2] # -1
    /\ nvad = 1
    /\ cache[cur.session_id].audio_buffer > BACKLOG_BYTES
    /\ cache[cur.session_id].buffer_offset_bytes > 0
    /\ cache[cur.session_id].current_start_ms * BYTES_PER_MS
          = cache[cur.session_id].buffer_offset_bytes

\* C27 (max-duration guard): after every processed non-final chunk, the
\* span of an Open session, from current_start_ms to the end of the
\* buffer, is at most MAX_SEGMENT_DURATION_MS, whatever the VAD reported
\* within the chunk.
C27_MaxDurationGuard ==
    \A s \in DOMAIN cache :
        (/\ pc = "idle" /\ ~cur.is_final /\ ~cur.raised
         /\ s = cur.session_id
         /\ cache[s].current_start_ms # -1)
            => DurationBytes(cache[s]) <= MAX_SEGMENT_DURATION_MS * BYTES_PER_MS

\* ------------------------------------------------------------------------
\* Properties of the speaker resolver
\* ------------------------------------------------------------------------

\* C28 (short-audio continuity): when a segment of at least 0.3 s and less
\* than 0.5 s is finalized while last_speaker holds the label of a
\* registered speaker, the label returned is that previous speaker's, not
\* unknown, and the registry is not modified.
C28_ShortAudioContinuity ==
    [][ \A p \in 1..Len(speaker_registry) :
          LET s == cur.session_id
              call == calls'[Len(calls')]
              prev == FormatLabel(SpeakerKey(p), speaker_registry[p].gender)
          IN  (/\ pc = "vad" /\ nvad' = nvad + 1
               /\ Len(calls') = Len(calls) + 1
               /\ ~call.raised
               /\ call.seg_len >= MIN_SEGMENT_BYTES
               /\ call.seg_len < MIN_SPEAKER_BYTES
               /\ cache[s].last_speaker = prev
               /\ call.previous_speaker = prev)
              => /\ call.speaker_id = prev
                 /\ speaker_registry' = speaker_registry
      ]_vars

\* One profile's count grows by one and nothing else changes
CountIncremented(reg, reg2) ==
    \E n \in 1..Len(reg) : reg2 = [reg EXCEPT ![n].count = @ + 1]

\* One profile with count 1 is added under the next id, the others stay
ProfileAdded(reg, reg2) ==
    \E g \in Genders : reg2 = Append(reg, [gender |-> g, count |-> 1])

\* C29: every step of a recognize_speaker call leaves the registry
\* unchanged, increments the count of exactly one existing profile by 1
\* without adding an entry, or adds exactly one new profile with count 1
\* under the id Speaker_{n+1}, n the previous size; no entry is removed and
\* every count is at least 1.
C29_RegistryEvolution ==
    [][/\ \/ speaker_registry' = speaker_registry
          \/ CountIncremented(speaker_registry, speaker_registry')
          \/ ProfileAdded(speaker_registry, speaker_registry')
       /\ \A n \in 1..Len(speaker_registry') : speaker_registry'[n].count >= 1]_vars

\* The step that is taken hands a VAD-closed or force-split segment to the
\* finalizer, which returns
SegmentNow ==
    /\ Len(calls') = Len(calls) + 1
    /\ calls'[Len(calls')].kind \in {"vad", "forced"}
    /\ ~calls'[Len(calls')].raised

\* end_byte of the segment of that step: the clamped end of the VAD pair
\* or, for a forced split, the length of the buffer
SegmentEndByte ==
    LET c == cache[cur.session_id]
    IN  IF calls'[Len(calls')].kind = "vad"
        THEN ClampEndByte(cur'.vad_pair[2] * BYTES_PER_MS - c.buffer_offset_bytes,
                          c.audio_buffer)
        ELSE c.audio_buffer

\* C30: a VAD-closed or force-split segment shorter than 9600 bytes
\* produces no result and leaves the speaker registry and last_speaker
\* unchanged; its bytes are removed from the buffer and buffer_offset_bytes
\* advances by end_byte, as for every segment, accepted or not.
C30_ShortSegmentConsumed ==
    [][SegmentNow =>
         LET s == cur.session_id
             call == calls'[Len(calls')]
         IN  /\ cache'[s].buffer_offset_bytes
                   = cache[s].buffer_offset_bytes + SegmentEndByte
             /\ cache'[s].audio_buffer
                   = cache[s].audio_buffer
                       - SliceIndex(SegmentEndByte, cache[s].audio_buffer)
             /\ call.rlo <= call.lo /\ call.hi <= call.rhi
             /\ call.seg_len < MIN_SEGMENT_BYTES
                   => /\ call.n_results = 0
                      /\ ~call.asr_run
                      /\ results' = results
                      /\ speaker_registry' = speaker_registry
                      /\ cache'[s].last_speaker = cache[s].last_speaker]_vars

\* A VAD-closed segment of less than 0.3 s has been rejected and its bytes
\* removed from the buffer.
C30_Witness ==
    \E i \in 1..Len(calls) :
        /\ calls[i].kind = "vad"
        /\ ~calls[i].raised
        /\ calls[i].seg_len > 0
        /\ calls[i].seg_len < MIN_SEGMENT_BYTES
        /\ calls[i].rhi > calls[i].rlo

\* A force-split segment of less than 0.3 s (the span started before the
\* first byte still buffered) has been rejected.
ShortForcedSegment ==
    \E i \in 1..Len(calls) :
        /\ calls[i].kind = "forced"
        /\ ~calls[i].raised
        /\ calls[i].seg_len < MIN_SEGMENT_BYTES

\* C31: every non-partial result emitted for a VAD-closed segment carries
\* the timestamp end_ms and the boundaries (start_ms, end_ms), start_ms
\* the start of the open span in effect when the close was processed, also
\* when that start was reported by an earlier pair and the closing pair is
\* (-1, end_ms).
C31_ResultBoundaries ==
    [][(pc = "vad" /\ nvad' = nvad + 1) =>
         LET s == cur.session_id
             pair == cur'.vad_pair
             open_start_ms == IF pair[1] # -1 THEN pair[1]
                              ELSE cache[s].current_start_ms
         IN  \A i \in (Len(results) + 1)..Len(results') :
                results'[i].kind = "vad"
                   => /\ results'[i].timestamp_ms = pair[2]
                      /\ results'[i].vad_segment = <<open_start_ms, pair[2]>>]_vars

\* The step that is taken runs the guards, and a partial result is emitted
PartialEmittedNow ==
    /\ GuardsRun
    /\ \E i \in (Len(results) + 1)..Len(results') : results'[i].kind = "partial"

\* C32: a partial result is computed only while the session is Open (the
\* backlog guard may have opened it just before); the computation leaves
\* the speaker registry, last_speaker, the buffer, buffer_offset_bytes and
\* current_start_ms as they were, so that a forced split that follows in
\* the same call finds them unchanged; no partial result is added to the
\* transcript of the meeting.
C32_PartialsNoSideEffects ==
    /\ [][PartialEmittedNow =>
            LET s == cur.session_id
                c == cache[s]
                c2 == cache'[s]
                open_start_ms == IF c.current_start_ms # -1
                                 THEN c.current_start_ms
                                 ELSE c.buffer_offset_bytes \div BYTES_PER_MS
            IN  /\ c.current_start_ms # -1 \/ c.audio_buffer > BACKLOG_BYTES
                /\ ~ForcedSplitNow
                      => /\ speaker_registry' = speaker_registry
                         /\ c2.last_speaker = c.last_speaker
                         /\ c2.audio_buffer = c.audio_buffer
                         /\ c2.buffer_offset_bytes = c.buffer_offset_bytes
                         /\ c2.current_start_ms = open_start_ms
                /\ ForcedSplitNow
                      => LET call == calls'[Len(calls')]
                         IN  /\ call.previous_speaker = c.last_speaker
                             /\ call.rhi - call.rlo = c.audio_buffer
                             /\ call.lo = Max(open_start_ms * BYTES_PER_MS,
                                              c.buffer_offset_bytes)
                                           - c.buffer_offset_bytes + call.rlo
                             /\ c2.buffer_offset_bytes
                                   = c.buffer_offset_bytes + c.audio_buffer]_vars
    /\ [](\A m \in Sessions : transcripts[m] <= produced[m])

\* A partial result and a non-partial one have been returned for a
\* meeting whose callback saved the non-partial one.
C32_Witness ==
    \E m \in Sessions :
        /\ returned[m] > produced[m]
        /\ produced[m] > 0
        /\ transcripts[m] = produced[m]

\* The VAD step that is taken closes a span whose stored start lies before
\* the first buffered byte, at an end that is not deferred
LostStartClose ==
    /\ pc = "vad"
    /\ nvad' = nvad + 1
    /\ cur'.vad_pair[2] # -1
    /\ LET c == cache[cur.session_id]
           open_start_ms == IF cur'.vad_pair[1] # -1 THEN cur'.vad_pair[1]
                            ELSE c.current_start_ms
       IN  /\ open_start_ms # -1
           /\ open_start_ms * BYTES_PER_MS < c.buffer_offset_bytes
           /\ ClampEndByte(cur'.vad_pair[2] * BYTES_PER_MS - c.buffer_offset_bytes,
                           c.audio_buffer) <= c.audio_buffer

\* C33: when a VAD close is processed and the stored start lies before
\* buffer_offset_bytes, the segment is taken from the first buffered byte
\* up to end_byte, handed to the finalizer and consumed as any other, and
\* the call does not raise.
C33_LostStartClamped ==
    [][LostStartClose =>
         LET c == cache[cur.session_id]
             c2 == cache'[cur.session_id]
             end_byte == ClampEndByte(cur'.vad_pair[2] * BYTES_PER_MS
                                         - c.buffer_offset_bytes, c.audio_buffer)
             call == calls'[Len(calls')]
         IN  /\ Len(calls') = Len(calls) + 1
             /\ call.kind = "vad"
             /\ ~call.raised /\ ~cur'.raised
             /\ call.lo = call.rlo
             /\ call.seg_len = SliceIndex(end_byte, c.audio_buffer)
             /\ c2.audio_buffer = c.audio_buffer - call.seg_len
             /\ c2.buffer_offset_bytes = c.buffer_offset_bytes + end_byte
             /\ c2.current_start_ms = -1]_vars

\* A span whose start (reported with its end) lies before the first
\* buffered byte has been closed: the segment begins at that byte.
C33_Witness ==
    /\ pc = "vad"
    /\ cur.vad_pair[1] # -1 /\ cur.vad_pair[2] # -1
    /\ calls # << >>
    /\ LET call == calls[Len(calls)]
       IN  /\ call.kind = "vad" /\ ~call.raised
           /\ call.lo = call.rlo
           /\ cur.vad_pair[1] * BYTES_PER_MS < call.lo
           /\ call.seg_len > 0
           /\ call.hi = cur.vad_pair[2] * BYTES_PER_MS

TryAcquireNow ==
    /\ Len(lock_log') = Len(lock_log) + 1
    /\ lock_log'[Len(lock_log')].op = "try_acquire"

ReleaseNow ==
    /\ Len(lock_log') = Len(lock_log) + 1
    /\ lock_log'[Len(lock_log')].op = "release"

\* C35 (gate state consistency): with owner ids other than None, _is_busy
\* is true exactly when current_owner is set; release by the current owner
\* frees the gate, try_acquire on a free gate succeeds for any owner, and
\* release on a free gate changes nothing.
C35_GateConsistency ==
    /\ [](is_busy <=> current_owner # NoOwner)
    /\ [][/\ (ReleaseNow /\ is_busy
                 /\ lock_log'[Len(lock_log')].owner_id = current_owner)
              => (~is_busy' /\ current_owner' = NoOwner)
          /\ (TryAcquireNow /\ ~is_busy)
              => /\ lock_log'[Len(lock_log')].ret
                 /\ is_busy'
                 /\ current_owner' = lock_log'[Len(lock_log')].owner_id
          /\ (ReleaseNow /\ ~is_busy)
              => (~is_busy' /\ current_owner' = current_owner)]_vars

\* s1 took the gate and released it, s2 released the free gate and then
\* took it.
C35_Witness ==
    /\ lock_log = <<[op |-> "try_acquire", owner_id |-> "s1", ret |-> TRUE],
                    [op |-> "release", owner_id |-> "s1", ret |-> FALSE],
                    [op |-> "release", owner_id |-> "s2", ret |-> FALSE],
                    [op |-> "try_acquire", owner_id |-> "s2", ret |-> TRUE]>>
    /\ is_busy /\ current_owner = "s2"

\* The number of items the worker has dequeued and not yet marked done
InFlight == IF wpc \in {"processing", "callback"} THEN 1 ELSE 0

\* C36 (worker robustness): every item the worker has dequeued is marked
\* task_done exactly once, whether _process_stream or the callback returned
\* or raised: the unfinished count is the number of items in the queue plus
\* the one being handled; the worker ends only by cancellation, not by an
\* exception of an item; the join of stop_worker is not left waiting once
\* every queued item has been handled.
C36_WorkerRobustness ==
    /\ [](unfinished = Len(queue) + InFlight)
    /\ [](stop_pc = "joining" => unfinished > 0)
    /\ [][(wpc # "done" /\ wpc' = "done") => cancel_requested]_vars

\* _process_stream raised on the first item of a session (its chunk of an
\* odd length is still in the buffer); the worker has processed the second
\* item and awaits the callback with its results.
C36_Witness ==
    /\ wpc = "callback"
    /\ Len(processed) = 2
    /\ WholeSamples(item.chunk_len)
    /\ item.session_id \in DOMAIN cache
    /\ ~WholeSamples(cache[item.session_id].audio_buffer)
    /\ unfinished = Len(queue) + 1

\* C37 (cross-session isolation): a step of the call that processes a chunk
\* of one session leaves the session cache (buffer, buffer_offset_bytes,
\* current_start_ms, last_speaker) of every other session as it is, and
\* the results of the call are handed to the callback registered under the
\* id of that session or to none.
C37_SessionIsolation ==
    [][/\ \A t \in DOMAIN cache :
             t # cur'.session_id
                => /\ t \in DOMAIN cache'
                   /\ cache'[t].audio_buffer = cache[t].audio_buffer
                   /\ cache'[t].buffer_offset_bytes = cache[t].buffer_offset_bytes
                   /\ cache'[t].current_start_ms = cache[t].current_start_ms
                   /\ cache'[t].last_speaker = cache[t].last_speaker
       /\ \A t \in DOMAIN cache' \ DOMAIN cache : t = cur'.session_id
       /\ Len(delivered') > Len(delivered)
             => /\ delivered' = Append(delivered, <<cur.session_id, item.n>>)
                /\ cur.session_id = item.session_id
                /\ cur.session_id \in callbacks]_vars

\* The results of a chunk of session B have been handed to B's callback
\* while session A holds buffered audio and an open span.
C37_Witness ==
    /\ wpc = "callback"
    /\ cur.session_id = "B"
    /\ delivered[Len(delivered)][1] = "B"
    /\ "A" \in DOMAIN cache /\ "B" \in DOMAIN cache
    /\ cache["A"].audio_buffer > 0
    /\ cache["A"].audio_buffer # cache["B"].audio_buffer

\* The worker tasks that have not ended, and the calls of _process_stream
\* running in the executor.
AliveTasks == {i \in DOMAIN tasks : tasks[i].pc # "done"}
RunningCalls ==
    Cardinality({i \in DOMAIN tasks : tasks[i].pc = "processing"}) + orphans

\* C38 (single consumer): whatever start_worker, enqueue_audio and
\* stop_worker calls were made, at most one worker task is alive and at
\* most one call of _process_stream is running.
C38_SingleConsumer ==
    /\ Cardinality(AliveTasks) <= 1
    /\ RunningCalls <= 1

\* C39 (enqueued work is eventually processed): under fair scheduling every
\* item that enqueue_audio has put is eventually taken from the queue by a
\* worker task and handed to _process_stream, also when it was put after a
\* stop_worker or after the worker task has ended.
C39_EventuallyProcessed ==
    \A n \in 1..MaxTaskPuts : (tput >= n) ~> (tgot >= n)

====
